---- MODULE Spec2Model ----
(***************************************************************************)
(* Finance tracker: recurring-schedule and bill-lifecycle engine.          *)
(*                                                                         *)
(* Time.  A calendar day is an integer, day 0 = 2024-01-01.  An instant   *)
(* (a JavaScript Date) is 2*day + h: h = 0 is midnight of that day, h = 1 *)
(* is any later moment of the same day (the time a request or a cron job  *)
(* runs).  DATE columns hold days; a DATE read back is the midnight       *)
(* instant of its day.  The server's zone is taken to be UTC.             *)
(* Amounts are whole currency units.                                      *)
(***************************************************************************)
EXTENDS Integers, Sequences, FiniteSets, TLC

VARIABLES
  now,        \* the system clock, an instant
  categories, \* table categories: set of [id, name, type, userId]
  budgets,    \* table budgets: set of budget rows
  bills,      \* table bills: set of bill rows
  payments,   \* table bill_payments: set of payment rows
  ledger,     \* table transactions: set of transaction rows
  nextId,     \* the BIGSERIAL sequences: [bill, payment, txn]
  reqs,       \* in-flight markBillPaid requests (overlapping-request model)
  calc,       \* inputs and result of a schedule-calculator evaluation
  last        \* the last completed operation and what it returned

vars == <<now, categories, budgets, bills, payments, ledger, nextId, reqs, calc, last>>

Null == "null"

Frequencies == {"daily", "weekly", "monthly", "yearly"}

(***************************************************************************)
(* Calendar arithmetic of the JavaScript Date object                       *)
(***************************************************************************)
IsLeap(y) == (y % 4 = 0 /\ y % 100 # 0) \/ y % 400 = 0

DaysInYear(y) == IF IsLeap(y) THEN 366 ELSE 365

\* m is the 0-based JavaScript month index, 0..11
DaysInMonth(y, m) ==
  IF m = 1 THEN (IF IsLeap(y) THEN 29 ELSE 28)
  ELSE IF m \in {3, 5, 8, 10} THEN 30 ELSE 31

RECURSIVE DaysBeforeYear(_)
DaysBeforeYear(y) ==
  IF y <= 2024 THEN 0 ELSE DaysBeforeYear(y - 1) + DaysInYear(y - 1)

RECURSIVE DaysBeforeMonth(_, _)
DaysBeforeMonth(y, m) ==
  IF m <= 0 THEN 0 ELSE DaysBeforeMonth(y, m - 1) + DaysInMonth(y, m - 1)

\* new Date(y, m, d): the month index may exceed 11 and the day of month may
\* exceed the month's length; both roll over into the following months.
DayOf(y, m, d) ==
  LET yy == y + (m \div 12)
      mm == m % 12
  IN  DaysBeforeYear(yy) + DaysBeforeMonth(yy, mm) + (d - 1)

RECURSIVE YearFrom(_, _)
YearFrom(n, y) ==
  IF n < DaysInYear(y) THEN <<y, n>> ELSE YearFrom(n - DaysInYear(y), y + 1)

RECURSIVE MonthFrom(_, _, _)
MonthFrom(n, y, m) ==
  IF n < DaysInMonth(y, m) THEN <<m, n + 1>>
  ELSE MonthFrom(n - DaysInMonth(y, m), y, m + 1)

getFullYear(day) == YearFrom(day, 2024)[1]
getMonth(day) == MonthFrom(YearFrom(day, 2024)[2], getFullYear(day), 0)[1]
getDate(day) == MonthFrom(YearFrom(day, 2024)[2], getFullYear(day), 0)[2]

\* instants
Instant(day, h) == 2 * day + h
Midnight(day) == 2 * day
DayPart(t) == t \div 2
TimePart(t) == t % 2

\* date.setDate(date.getDate() + k)
setDatePlus(t, k) == t + 2 * k
\* date.setMonth(date.getMonth() + k)
setMonthPlus(t, k) ==
  LET d == DayPart(t)
  IN  Instant(DayOf(getFullYear(d), getMonth(d) + k, getDate(d)), TimePart(t))
\* date.setFullYear(date.getFullYear() + k)
setFullYearPlus(t, k) ==
  LET d == DayPart(t)
  IN  Instant(DayOf(getFullYear(d) + k, getMonth(d), getDate(d)), TimePart(t))

\* today.setHours(0, 0, 0, 0)
setHoursZero(t) == Midnight(DayPart(t))

(***************************************************************************)
(* ScheduleCalculator                                                      *)
(***************************************************************************)

\* mark_bill_paid.ts calculateNextDueDate: one period after currentDueDate
AdvanceOffByOne(currentDueDate, frequency) ==
  CASE frequency = "daily" -> setDatePlus(currentDueDate, 1)
    [] frequency = "weekly" -> setDatePlus(currentDueDate, 6)
    [] frequency = "monthly" -> setMonthPlus(currentDueDate, 1)
    [] frequency = "yearly" -> setFullYearPlus(currentDueDate, 1)
    [] OTHER -> currentDueDate

markPaid_calculateNextDueDate(currentDueDate, frequency) ==
  CASE frequency = "daily" -> setDatePlus(currentDueDate, 1)
    [] frequency = "weekly" -> setDatePlus(currentDueDate, 7)
    [] frequency = "monthly" -> setMonthPlus(currentDueDate, 1)
    [] frequency = "yearly" -> setFullYearPlus(currentDueDate, 1)
    [] OTHER -> currentDueDate

\* the auto-matcher's private copy of the same function
autoDetect_calculateNextDueDate(currentDueDate, frequency) ==
  CASE frequency = "daily" -> setDatePlus(currentDueDate, 1)
    [] frequency = "weekly" -> setDatePlus(currentDueDate, 7)
    [] frequency = "monthly" -> setMonthPlus(currentDueDate, 1)
    [] frequency = "yearly" -> setFullYearPlus(currentDueDate, 1)
    [] OTHER -> currentDueDate

\* the while loops of createBill's calculateNextDueDate; each iteration
\* mutates nextDate in place, so a rolled-over day of month is carried on
RECURSIVE CatchUpLoop(_, _, _)
\* one period added where the loop should run until past today
CatchUpLoopOnce(nextDate, frequency, today) ==
  IF nextDate <= today
  THEN CASE frequency = "daily" -> setDatePlus(nextDate, 1)
         [] frequency = "weekly" -> setDatePlus(nextDate, 7)
         [] frequency = "monthly" -> setMonthPlus(nextDate, 1)
         [] frequency = "yearly" -> setFullYearPlus(nextDate, 1)
         [] OTHER -> nextDate
  ELSE nextDate

CatchUpLoop(nextDate, frequency, today) ==
  IF nextDate <= today
  THEN CASE frequency = "daily" -> CatchUpLoop(setDatePlus(nextDate, 1), frequency, today)
         [] frequency = "weekly" -> CatchUpLoop(setDatePlus(nextDate, 7), frequency, today)
         [] frequency = "monthly" -> CatchUpLoop(setMonthPlus(nextDate, 1), frequency, today)
         [] frequency = "yearly" -> CatchUpLoop(setFullYearPlus(nextDate, 1), frequency, today)
         [] OTHER -> nextDate
  ELSE nextDate

\* the same loops with the comparison nextDate < today
RECURSIVE CatchUpLoopLt(_, _, _)
CatchUpLoopLt(nextDate, frequency, today) ==
  IF nextDate < today
  THEN CASE frequency = "daily" -> CatchUpLoopLt(setDatePlus(nextDate, 1), frequency, today)
         [] frequency = "weekly" -> CatchUpLoopLt(setDatePlus(nextDate, 7), frequency, today)
         [] frequency = "monthly" -> CatchUpLoopLt(setMonthPlus(nextDate, 1), frequency, today)
         [] frequency = "yearly" -> CatchUpLoopLt(setFullYearPlus(nextDate, 1), frequency, today)
         [] OTHER -> nextDate
  ELSE nextDate

calculateNextDueDateLt(dueDate, frequency, today) ==
  IF dueDate > today THEN dueDate ELSE CatchUpLoopLt(dueDate, frequency, today)

\* createBill's calculateNextDueDate; today is new Date(), the clock
calculateNextDueDate(dueDate, frequency, today) ==
  IF dueDate > today THEN dueDate ELSE CatchUpLoop(dueDate, frequency, today)

\* updateBill's copy of calculateNextDueDate
updateBill_calculateNextDueDate(dueDate, frequency, today) ==
  IF dueDate > today THEN dueDate ELSE CatchUpLoop(dueDate, frequency, today)

\* the loop of the monthly and yearly cases: every candidate is computed
\* afresh from start, start plus monthsToAdd months (yearsToAdd years)
RECURSIVE NextOccurrenceLoop(_, _, _, _)
NextOccurrenceLoop(start, frequency, current, toAdd) ==
  LET nextDate == IF toAdd = 0 THEN start
                  ELSE IF frequency = "monthly" THEN setMonthPlus(start, toAdd)
                  ELSE setFullYearPlus(start, toAdd)
  IN  IF nextDate <= current
      THEN NextOccurrenceLoop(start, frequency, current, toAdd + 1)
      ELSE nextDate

\* a project-forward that returns the latest daily or weekly occurrence on
\* or before the reference date
calculateNextOccurrenceNoStep(startDate, frequency, currentDate) ==
  IF startDate > currentDate THEN <<>>
  ELSE CASE frequency = "daily" ->
              LET daysDiff == (currentDate - startDate) \div 2
              IN  <<setDatePlus(startDate, daysDiff)>>
         [] frequency = "weekly" ->
              LET weeksDiff == (currentDate - startDate) \div (2 * 7)
              IN  <<setDatePlus(startDate, weeksDiff * 7)>>
         [] frequency \in {"monthly", "yearly"} ->
              <<NextOccurrenceLoop(startDate, frequency, currentDate, 0)>>
         [] OTHER -> <<>>

\* processRecurring's calculateNextOccurrence; <<>> is null
calculateNextOccurrence(startDate, frequency, currentDate) ==
  IF startDate > currentDate THEN <<>>
  ELSE CASE frequency = "daily" ->
              LET daysDiff == (currentDate - startDate) \div 2
              IN  <<setDatePlus(startDate, daysDiff + 1)>>
         [] frequency = "weekly" ->
              LET weeksDiff == (currentDate - startDate) \div (2 * 7)
              IN  <<setDatePlus(startDate, (weeksDiff + 1) * 7)>>
         [] frequency \in {"monthly", "yearly"} ->
              <<NextOccurrenceLoop(startDate, frequency, currentDate, 0)>>
         [] OTHER -> <<>>

(***************************************************************************)
(* Bounds and input sets                                                   *)
(***************************************************************************)
MaxBills == 1       \* bills ever created
MaxPayments == 2    \* bill_payments ids ever drawn
MaxTxns == 1        \* ledger rows ever created
MaxTicks == 3       \* instants the clock advances past its start

NumBatchBills == 2     \* batch jobs: bills in the store
MaxBatchPayments == 2  \* batch jobs: bill_payments ids ever drawn
MaxBatchTxns == 2      \* batch jobs: ledger rows ever created
MaxBatchTicks == 2     \* batch jobs: instants the clock advances
MaxRecTxns == 2        \* projector: ledger rows the user enters
MaxRecTicks == 2       \* projector: instants the clock advances
MaxInFlight == 2        \* overlapping requests: requests in flight at once
MaxOverlapPayments == 3 \* overlapping requests: payments ever attempted
MaxOverlapTicks == 1    \* overlapping requests: instants the clock advances
NumDetectBills == 2     \* matcher window: bills in the store
MaxDetectTxns == 2      \* matcher window: ledger rows ever created
MaxDetectPayments == 2  \* matcher window: bill_payments ids ever drawn
MaxDetectTicks == 1     \* matcher window: instants the clock advances
MaxBudgets == 2         \* budgets: budgets ever created
MaxBudgetTxns == 2      \* budgets: ledger rows ever created
MaxBudgetTicks == 1     \* budgets: instants the clock advances
MaxBudgetInFlight == 2  \* overlapping budget requests: requests in flight at once
MaxOverlapBudgets == 2  \* overlapping budget requests: budgets ever attempted
MaxCreateBills == 2     \* bill creation: bills ever created
MaxCreateTicks == 2     \* bill creation: instants the clock advances
MaxPeriods == 14        \* bill creation: periods between an anchor and today
MaxAnchorDay == 59  \* schedule calculator: anchors 2024-01-01 .. 2024-02-29
MaxRefDay == 62     \* schedule calculator: reference days up to 2024-03-03
MaxOccurrences == 64 \* schedule calculator: periods between a start and a reference

\* optional values: an absent request field or a NULL column
None == <<>>
Some(v) == <<v>>
IsSome(o) == o # <<>>
Val(o) == o[1]

StartDay == DayOf(2024, 3, 10)            \* 2024-04-10
StartInstant == Instant(StartDay, 1)

MaxAmount == 999999999

AmountInputs == {0, 150}
CategoryInputs == {1, 13, 99}
DueDateInputs == {Midnight(DayOf(2024, 0, 15)), Midnight(StartDay + 1)}
MarkPaidAmountInputs == {None, Some(0), Some(0 - 5), Some(MaxAmount + 1)}
ReminderInputs == {None, Some(0)}

(***************************************************************************)
(* The store                                                               *)
(***************************************************************************)
\* the authenticated caller (getAuthData().userID)
UserId == "u1"

\* migrations/1_create_tables.up.sql: of the default categories the model
\* keeps Salary (id 1, income) and Bills & Utilities (id 8, expense); the
\* user_id column was added after they were inserted, so they have no owner
DefaultCategories ==
  {[id |-> 1, name |-> "Salary", type |-> "income", userId |-> None],
   [id |-> 8, name |-> "Bills & Utilities", type |-> "expense", userId |-> None]}

\* create_category.ts: the rows the caller's earlier createCategory calls
\* inserted, ids following the twelve default rows
UserCategories ==
  {[id |-> 13, name |-> "Rent", type |-> "expense", userId |-> Some(UserId)],
   [id |-> 14, name |-> "Pay", type |-> "income", userId |-> Some(UserId)]}

InitialCategories == DefaultCategories \cup UserCategories

\* what the last completed call was and what its caller saw; fault names
\* the statement of a transactional block on which the store raised an error
ResultF(op, err, id, out, fault) ==
  [op |-> op, err |-> err, id |-> id, out |-> out, fault |-> fault,
   n |-> IF op \in {"processBillReminders", "processRecurring"}
            /\ last.op = op /\ last.id = id THEN 2 ELSE 1]

Result(op, err, id, out) ==
  [op |-> op, err |-> err, id |-> id, out |-> out, fault |-> "none",
   n |-> IF op \in {"processBillReminders", "processRecurring"}
            /\ last.op = op /\ last.id = id THEN 2 ELSE 1]

NoCalc ==
  [fn |-> "none", anchor |-> 0, frequency |-> "daily", ref |-> 0, out |-> None,
   occDone |-> FALSE, occ |-> None]

(***************************************************************************)
(* createBill                                                              *)
(***************************************************************************)
createBill_error(amount, categoryId, frequency, reminderDays) ==
  LET category == {c \in categories : c.id = categoryId}
  IN  IF amount <= 0 THEN "invalid_argument"
      ELSE IF amount > MaxAmount THEN "invalid_argument"
      ELSE IF categoryId <= 0 THEN "invalid_argument"
      ELSE IF frequency \notin Frequencies THEN "invalid_argument"
      ELSE IF IsSome(reminderDays) /\ (Val(reminderDays) < 0 \/ Val(reminderDays) > 30)
           THEN "invalid_argument"
      ELSE IF category = {} THEN "not_found"
      ELSE IF \E c \in category : c.type # "expense" THEN "invalid_argument"
      ELSE Null

createBill_row(amount, categoryId, dueDate, frequency, autoPayEnabled, reminderDays) ==
  [id |-> nextId.bill,
   amount |-> amount,
   categoryId |-> categoryId,
   dueDate |-> DayPart(dueDate),
   frequency |-> frequency,
   status |-> "pending",
   autoPayEnabled |-> autoPayEnabled,
   reminderDays |-> IF IsSome(reminderDays) /\ Val(reminderDays) # 0
                    THEN Val(reminderDays) ELSE 3,
   lastPaidDate |-> None,
   nextDueDate |-> DayPart(calculateNextDueDate(dueDate, frequency, now))]

CreateBill(amount, categoryId, dueDate, frequency, autoPayEnabled, reminderDays) ==
  LET err == createBill_error(amount, categoryId, frequency, reminderDays)
      row == createBill_row(amount, categoryId, dueDate, frequency,
                            autoPayEnabled, reminderDays)
  IN  /\ IF err # Null
         THEN /\ last' = Result("createBill", err, 0, 0)
              /\ UNCHANGED <<bills, nextId>>
         ELSE /\ bills' = bills \cup {row}
              /\ nextId' = [nextId EXCEPT !.bill = @ + 1]
              /\ last' = Result("createBill", Null, row.id, row.nextDueDate)
      /\ UNCHANGED <<now, categories, budgets, payments, ledger, reqs, calc>>

(***************************************************************************)
(* updateBill: every request field is optional                             *)
(***************************************************************************)
updateBill_error(id, amount, categoryId, dueDate, frequency, autoPayEnabled, reminderDays) ==
  IF id <= 0 THEN "invalid_argument"
  ELSE IF IsSome(amount) /\ (Val(amount) <= 0 \/ Val(amount) > MaxAmount)
       THEN "invalid_argument"
  ELSE IF IsSome(categoryId) /\ Val(categoryId) <= 0 THEN "invalid_argument"
  ELSE IF IsSome(frequency) /\ Val(frequency) \notin Frequencies THEN "invalid_argument"
  ELSE IF IsSome(reminderDays) /\ (Val(reminderDays) < 0 \/ Val(reminderDays) > 30)
       THEN "invalid_argument"
  ELSE IF IsSome(categoryId) /\ ~\E c \in categories : c.id = Val(categoryId)
       THEN "not_found"
  ELSE IF IsSome(categoryId)
          /\ \E c \in categories : c.id = Val(categoryId) /\ c.type # "expense"
       THEN "invalid_argument"
  ELSE IF ~IsSome(amount) /\ ~IsSome(categoryId) /\ ~IsSome(dueDate)
          /\ ~IsSome(frequency) /\ ~IsSome(autoPayEnabled) /\ ~IsSome(reminderDays)
       THEN "invalid_argument"
  ELSE IF ~\E b \in bills : b.id = id THEN "not_found"
  ELSE Null

\* the SET list: the given fields, and next_due_date when dueDate or
\* frequency is given; status and last_paid_date are never in it
updateBill_row(b, amount, categoryId, dueDate, frequency, autoPayEnabled, reminderDays) ==
  LET newDueDate == IF IsSome(dueDate) THEN Val(dueDate) ELSE Midnight(b.dueDate)
      newFrequency == IF IsSome(frequency) THEN Val(frequency) ELSE b.frequency
  IN  [b EXCEPT
         !.amount = IF IsSome(amount) THEN Val(amount) ELSE @,
         !.categoryId = IF IsSome(categoryId) THEN Val(categoryId) ELSE @,
         !.dueDate = IF IsSome(dueDate) THEN DayPart(Val(dueDate)) ELSE @,
         !.frequency = IF IsSome(frequency) THEN Val(frequency) ELSE @,
         !.autoPayEnabled = IF IsSome(autoPayEnabled) THEN Val(autoPayEnabled) ELSE @,
         !.reminderDays = IF IsSome(reminderDays) THEN Val(reminderDays) ELSE @,
         !.nextDueDate = IF IsSome(dueDate) \/ IsSome(frequency)
                         THEN DayPart(updateBill_calculateNextDueDate(
                                        newDueDate, newFrequency, now))
                         ELSE @]

UpdateBill(id, amount, categoryId, dueDate, frequency, autoPayEnabled, reminderDays) ==
  LET err == updateBill_error(id, amount, categoryId, dueDate, frequency,
                              autoPayEnabled, reminderDays)
  IN  /\ IF err # Null
         THEN /\ last' = Result("updateBill", err, id, 0)
              /\ UNCHANGED bills
         ELSE /\ bills' = {IF b.id = id
                           THEN updateBill_row(b, amount, categoryId, dueDate,
                                               frequency, autoPayEnabled, reminderDays)
                           ELSE b : b \in bills}
              /\ last' = Result("updateBill", Null, id, 0)
      /\ UNCHANGED <<now, categories, budgets, payments, ledger, nextId, reqs, calc>>

(***************************************************************************)
(* Transactional blocks: BEGIN ... COMMIT / ROLLBACK                       *)
(* db is the part of the store a block writes: [bills, payments, nextId]   *)
(***************************************************************************)
Db == [bills |-> bills, payments |-> payments, nextId |-> nextId, matched |-> 0,
       failed |-> {}]

\* INSERT INTO bill_payments
InsertPayment(db, billId, transactionId, amount, paidDate, isAutoDetected) ==
  [db EXCEPT
     !.payments = @ \cup {[id |-> db.nextId.payment,
                           billId |-> billId,
                           transactionId |-> transactionId,
                           amount |-> amount,
                           paidDate |-> DayPart(paidDate),
                           isAutoDetected |-> isAutoDetected]},
     !.nextId = [@ EXCEPT !.payment = @ + 1]]

\* UPDATE bills SET status = 'paid', last_paid_date, next_due_date WHERE id
UpdateBillPaid(db, id, paidDate, nextDueDate) ==
  [db EXCEPT
     !.bills = {IF b.id = id
                THEN [b EXCEPT !.status = "paid",
                               !.lastPaidDate = Some(DayPart(paidDate)),
                               !.nextDueDate = DayPart(nextDueDate)]
                ELSE b : b \in @}]

\* a ROLLBACK that undoes nothing
RollbackKeepsWrites(snapshot, db) == db

\* ROLLBACK: the store as it was at BEGIN
Rollback(snapshot, db) == snapshot

FaultKinds == {"none", "insert", "update"}

(***************************************************************************)
(* markBillPaid                                                            *)
(***************************************************************************)
\* req.amount || bill.amount
markBillPaid_paymentAmount(amount, bill) ==
  IF IsSome(amount) /\ Val(amount) # 0 THEN Val(amount) ELSE bill.amount

\* req.paidDate || new Date()
markBillPaid_paidDate(paidDate) ==
  IF IsSome(paidDate) THEN Val(paidDate) ELSE now

markBillPaid_error(id, amount, transactionId) ==
  LET found == {b \in bills : b.id = id}
  IN  IF id <= 0 THEN "invalid_argument"
      ELSE IF found = {} THEN "not_found"
      ELSE LET bill == CHOOSE b \in found : TRUE
               paymentAmount == markBillPaid_paymentAmount(amount, bill)
           IN  IF paymentAmount <= 0 THEN "invalid_argument"
               ELSE IF paymentAmount > MaxAmount THEN "invalid_argument"
               ELSE IF IsSome(transactionId) /\ Val(transactionId) # 0
                       /\ ~\E t \in ledger : t.id = Val(transactionId)
                    THEN "not_found"
               ELSE Null

\* the try block: what the store holds when the handler returns or throws
markBillPaid_tx(bill, paymentAmount, paidDate, transactionId, nextDueDate, fault) ==
  LET begin == Db
      inserted == InsertPayment(begin, bill.id,
                                IF IsSome(transactionId) /\ Val(transactionId) # 0
                                THEN transactionId ELSE None,
                                paymentAmount, paidDate, FALSE)
      updated == UpdateBillPaid(inserted, bill.id, paidDate, nextDueDate)
  IN  IF fault = "insert" THEN Rollback(begin, begin)
      ELSE IF fault = "update" THEN Rollback(begin, inserted)
      ELSE updated

MarkBillPaid(id, amount, paidDate, transactionId, fault) ==
  LET err == markBillPaid_error(id, amount, transactionId)
  IN  /\ IF err # Null
         THEN /\ last' = Result("markBillPaid", err, id, 0)
              /\ UNCHANGED <<bills, payments, nextId>>
         ELSE LET bill == CHOOSE b \in bills : b.id = id
                  paymentAmount == markBillPaid_paymentAmount(amount, bill)
                  paid == markBillPaid_paidDate(paidDate)
                  nextDueDate == markPaid_calculateNextDueDate(
                                   Midnight(bill.nextDueDate), bill.frequency)
                  db == markBillPaid_tx(bill, paymentAmount, paid, transactionId,
                                        nextDueDate, fault)
              IN  /\ bills' = db.bills
                  /\ payments' = db.payments
                  /\ nextId' = db.nextId
                  /\ last' = IF fault = "none"
                             THEN Result("markBillPaid", Null, id, DayPart(paid))
                             ELSE ResultF("markBillPaid", "internal", id, 0, fault)
      /\ UNCHANGED <<now, categories, budgets, ledger, reqs, calc>>

(***************************************************************************)
(* processBillReminders: the overdue sweep, then the reminder query        *)
(***************************************************************************)
\* a sweep that stops after the first row it finds
SweepFirstRowOnly(rows, today) ==
  LET due == {b \in rows : b.status = "pending" /\ Midnight(b.nextDueDate) < today}
  IN  IF due = {} THEN rows
      ELSE LET first == CHOOSE b \in due : \A c \in due : b.id <= c.id
           IN  {IF b = first THEN [b EXCEPT !.status = "overdue"] ELSE b : b \in rows}

\* UPDATE bills SET status = 'overdue' WHERE status = 'pending' AND next_due_date < today
SweepOverdue(rows, today) ==
  {IF b.status = "pending" /\ Midnight(b.nextDueDate) < today
   THEN [b EXCEPT !.status = "overdue"] ELSE b : b \in rows}

\* Math.ceil(timeDiff / one day), timeDiff in instants (two to the day)
CeilDays(timeDiff) == IF timeDiff % 2 = 0 THEN timeDiff \div 2 ELSE (timeDiff \div 2) + 1

\* a reminder query that leaves out the bill due exactly reminder_days ahead
NeedsReminderStrict(b, today) ==
  /\ b.status \in {"pending", "overdue"}
  /\ Midnight(b.nextDueDate) < setDatePlus(today, b.reminderDays)
  /\ \E c \in categories : c.id = b.categoryId

NeedsReminder(b, today) ==
  /\ b.status \in {"pending", "overdue"}
  /\ \/ Midnight(b.nextDueDate) <= setDatePlus(today, b.reminderDays)
     \/ Midnight(b.nextDueDate) < today
  /\ \E c \in categories : c.id = b.categoryId

Reminders(rows, today) ==
  {[billId |-> b.id,
    dueDate |-> b.nextDueDate,
    daysUntilDue |-> CeilDays(Midnight(b.nextDueDate) - today),
    isOverdue |-> CeilDays(Midnight(b.nextDueDate) - today) < 0]
   : b \in {r \in rows : NeedsReminder(r, today)}}

\* a job whose sweep also moves the swept bills' next due date to today
ProcessBillRemindersMovesDueDate ==
  LET today == setHoursZero(now)
      swept == {IF b.status = "pending" /\ Midnight(b.nextDueDate) < today
                THEN [b EXCEPT !.status = "overdue", !.nextDueDate = DayPart(today)]
                ELSE b : b \in bills}
  IN  /\ bills' = swept
      /\ last' = Result("processBillReminders", Null, DayPart(today),
                        Reminders(swept, today))
      /\ UNCHANGED <<now, categories, budgets, payments, ledger, nextId, reqs, calc>>

ProcessBillReminders ==
  LET today == setHoursZero(now)
      swept == SweepOverdue(bills, today)
  IN  /\ bills' = swept
      /\ last' = Result("processBillReminders", Null, DayPart(today),
                        Reminders(swept, today))
      /\ UNCHANGED <<now, categories, budgets, payments, ledger, nextId, reqs, calc>>

(***************************************************************************)
(* processAutoDetection                                                    *)
(***************************************************************************)
Abs(x) == IF x < 0 THEN 0 - x ELSE x

\* the bills the run selects
autoDetect_bills(rows, sevenDaysAgo, today) ==
  {b \in rows : /\ b.status = "pending"
                /\ b.autoPayEnabled
                /\ Midnight(b.nextDueDate) >= sevenDaysAgo
                /\ Midnight(b.nextDueDate) <= today}

\* the candidate query without its NOT EXISTS clause
autoDetect_candidatesAnyLink(db, bill, sevenDaysAgo, today) ==
  {t \in ledger : /\ t.categoryId = bill.categoryId
                  /\ t.amount = bill.amount
                  /\ Midnight(t.date) >= sevenDaysAgo
                  /\ Midnight(t.date) <= today}

\* the rows the matching query ranges over, before ORDER BY ... LIMIT 1
autoDetect_candidates(db, bill, sevenDaysAgo, today) ==
  {t \in ledger : /\ t.categoryId = bill.categoryId
                  /\ t.amount = bill.amount
                  /\ Midnight(t.date) >= sevenDaysAgo
                  /\ Midnight(t.date) <= today
                  /\ ~\E bp \in db.payments : bp.transactionId = Some(t.id)}

\* LIMIT 1 without the ORDER BY: any candidate
autoDetect_anyCandidate(cands, bill, pref) ==
  {t \in cands : \A u \in cands : pref[t.id] <= pref[u.id]}

\* ORDER BY ABS(t.date - next_due_date) ASC LIMIT 1; rows at the same
\* distance come back in no defined order: pref ranks the ledger ids
autoDetect_closest(cands, bill, pref) ==
  LET dist(t) == Abs(t.date - bill.nextDueDate)
      best == {t \in cands : \A u \in cands : dist(t) <= dist(u)}
  IN  {t \in best : \A u \in best : pref[t.id] <= pref[u.id]}

\* the body of the for loop for one selected bill
autoDetect_one(db, bill, sevenDaysAgo, today, pref, fault) ==
  LET found == autoDetect_closest(
                 autoDetect_candidates(db, bill, sevenDaysAgo, today), bill, pref)
  IN  IF found = {} THEN db
      ELSE LET matchingTransaction == CHOOSE t \in found : TRUE
               inserted == InsertPayment(db, bill.id, Some(matchingTransaction.id),
                                         matchingTransaction.amount,
                                         Midnight(matchingTransaction.date), TRUE)
               nextDueDate == autoDetect_calculateNextDueDate(
                                Midnight(bill.nextDueDate), "monthly")
               updated == UpdateBillPaid(inserted, bill.id,
                                         Midnight(matchingTransaction.date), nextDueDate)
           IN  IF fault = "insert"
               THEN [Rollback(db, db) EXCEPT !.failed = @ \cup {bill.id}]
               ELSE IF fault = "update"
               THEN [Rollback(db, inserted) EXCEPT !.failed = @ \cup {bill.id}]
               ELSE [updated EXCEPT !.matched = @ + 1]

RECURSIVE autoDetect_loop(_, _, _, _, _, _, _)
\* a loop that ends at the first bill whose transaction failed
autoDetect_loopAborts(db, order, i, sevenDaysAgo, today, pref, faults) ==
  IF i > Len(order) \/ db.failed # {} THEN db
  ELSE autoDetect_loop(
         autoDetect_one(db, order[i], sevenDaysAgo, today, pref, faults[order[i].id]),
         order, i + 1, sevenDaysAgo, today, pref, faults)

autoDetect_loop(db, order, i, sevenDaysAgo, today, pref, faults) ==
  IF i > Len(order) THEN db
  ELSE autoDetect_loop(
         autoDetect_one(db, order[i], sevenDaysAgo, today, pref, faults[order[i].id]),
         order, i + 1, sevenDaysAgo, today, pref, faults)

Orderings(S) ==
  {f \in [1..Cardinality(S) -> S] : \A i, j \in 1..Cardinality(S) : f[i] = f[j] => i = j}

Rankings(S) ==
  {f \in [S -> 1..Cardinality(S)] : \A x, y \in S : f[x] = f[y] => x = y}

\* order: the order in which the unordered bill query returns its rows
ProcessAutoDetection(order, pref, faults) ==
  LET today == now
      sevenDaysAgo == setDatePlus(now, 0 - 7)
      db == autoDetect_loop(Db, order, 1, sevenDaysAgo, today, pref, faults)
  IN  /\ bills' = db.bills
      /\ payments' = db.payments
      /\ nextId' = db.nextId
      /\ last' = ResultF("processAutoDetection", Null, DayPart(now), db.matched, db.failed)
      /\ UNCHANGED <<now, categories, budgets, ledger, reqs, calc>>

AutoDetectionRun ==
  \E order \in Orderings(autoDetect_bills(bills, setDatePlus(now, 0 - 7), now)),
     pref \in Rankings({t.id : t \in ledger}),
     faults \in [{b.id : b \in bills} -> FaultKinds] :
     ProcessAutoDetection(order, pref, faults)

(***************************************************************************)
(* createTransaction                                                       *)
(***************************************************************************)
createTransaction_error(amount, description, categoryId, date, isRecurring, recurringFrequency, recurringEndDate) ==
  IF description = "" THEN "invalid_argument"
  ELSE IF amount <= 0 THEN "invalid_argument"
  ELSE IF amount > MaxAmount THEN "invalid_argument"
  ELSE IF categoryId <= 0 THEN "invalid_argument"
  ELSE IF date > setFullYearPlus(now, 1) THEN "invalid_argument"
  ELSE IF isRecurring /\ ~IsSome(recurringFrequency) THEN "invalid_argument"
  ELSE IF isRecurring /\ Val(recurringFrequency) \notin Frequencies THEN "invalid_argument"
  ELSE IF isRecurring /\ IsSome(recurringEndDate) /\ Val(recurringEndDate) <= date
       THEN "invalid_argument"
  ELSE IF ~\E c \in categories : c.id = categoryId /\ c.userId = Some(UserId)
       THEN "not_found"
  ELSE Null

CreateTransaction(amount, description, categoryId, date, isRecurring, recurringFrequency, recurringEndDate) ==
  LET err == createTransaction_error(amount, description, categoryId, date,
                                     isRecurring, recurringFrequency, recurringEndDate)
      row == [id |-> nextId.txn,
              amount |-> amount,
              description |-> description,
              categoryId |-> categoryId,
              date |-> DayPart(date),
              isRecurring |-> isRecurring,
              recurringFrequency |-> recurringFrequency,
              recurringEndDate |-> IF IsSome(recurringEndDate)
                                   THEN Some(DayPart(Val(recurringEndDate))) ELSE None]
  IN  /\ IF err # Null
         THEN /\ last' = Result("createTransaction", err, 0, 0)
              /\ UNCHANGED <<ledger, nextId>>
         ELSE /\ ledger' = ledger \cup {row}
              /\ nextId' = [nextId EXCEPT !.txn = @ + 1]
              /\ last' = Result("createTransaction", Null, row.id, 0)
      /\ UNCHANGED <<now, categories, budgets, bills, payments, reqs, calc>>

(***************************************************************************)
(* processRecurring                                                        *)
(***************************************************************************)
\* the templates the run selects
processRecurring_templates(rows, today) ==
  {t \in rows : /\ t.isRecurring
                /\ \/ ~IsSome(t.recurringEndDate)
                   \/ Midnight(Val(t.recurringEndDate)) >= today}

MaterializedRow(id, t, nextDate) ==
  [id |-> id, amount |-> t.amount, description |-> t.description,
   categoryId |-> t.categoryId, date |-> DayPart(nextDate), isRecurring |-> FALSE,
   recurringFrequency |-> None, recurringEndDate |-> None]

\* a loop body that inserts whenever there is a next date
processRecurring_oneNoChecks(st, t, today) ==
  LET nextDate == calculateNextOccurrence(
                    Midnight(t.date), Val(t.recurringFrequency), today)
  IN  IF ~IsSome(nextDate) THEN [st EXCEPT !.processed = @ + 1]
      ELSE [st EXCEPT !.processed = @ + 1,
                      !.rows = @ \cup {MaterializedRow(st.txn, t, Val(nextDate))},
                      !.txn = @ + 1,
                      !.created = @ + 1]

\* the body of the for loop for one template; st = [rows, txn, processed, created]
processRecurring_one(st, t, today) ==
  LET nextDate == calculateNextOccurrence(
                    Midnight(t.date), Val(t.recurringFrequency), today)
      existingTransaction ==
        {r \in st.rows : /\ r.description = t.description
                         /\ r.categoryId = t.categoryId
                         /\ r.amount = t.amount
                         /\ Midnight(r.date) = Val(nextDate)
                         /\ r.isRecurring = FALSE}
  IN  IF ~IsSome(nextDate) THEN [st EXCEPT !.processed = @ + 1]
      ELSE IF Val(nextDate) <= today /\ existingTransaction = {}
      THEN [st EXCEPT !.processed = @ + 1,
                      !.rows = @ \cup {MaterializedRow(st.txn, t, Val(nextDate))},
                      !.txn = @ + 1,
                      !.created = @ + 1]
      ELSE [st EXCEPT !.processed = @ + 1]

RECURSIVE processRecurring_loop(_, _, _, _)
RECURSIVE processRecurring_loopUnguarded(_, _, _, _)
\* a loop whose body inserts the next occurrence without the guards
processRecurring_loopUnguarded(st, order, i, today) ==
  IF i > Len(order) THEN st
  ELSE processRecurring_loopUnguarded(processRecurring_oneNoChecks(st, order[i], today),
                                      order, i + 1, today)

processRecurring_loop(st, order, i, today) ==
  IF i > Len(order) THEN st
  ELSE processRecurring_loop(processRecurring_one(st, order[i], today),
                             order, i + 1, today)

\* order: the selected templates, ORDER BY date ASC
ProcessRecurring(order) ==
  LET today == setHoursZero(now)
      st == processRecurring_loop(
              [rows |-> ledger, txn |-> nextId.txn, processed |-> 0, created |-> 0],
              order, 1, today)
  IN  /\ \A i, j \in 1..Len(order) : i < j => order[i].date <= order[j].date
      /\ ledger' = st.rows
      /\ nextId' = [nextId EXCEPT !.txn = st.txn]
      /\ last' = Result("processRecurring", Null, DayPart(today),
                        <<st.processed, st.created>>)
      /\ UNCHANGED <<now, categories, budgets, bills, payments, reqs, calc>>

RecurringRun ==
  \E order \in Orderings(processRecurring_templates(ledger, setHoursZero(now))) :
     ProcessRecurring(order)

(***************************************************************************)
(* createBudget, updateBudget                                              *)
(***************************************************************************)
BudgetPeriods == {"monthly", "yearly"}

\* the overlap query of createBudget and updateBudget (there with
\* id != req.id); startDate an instant, endDate an optional instant
budget_overlapping(rows, categoryId, excludeId, startDate, endDate) ==
  LET endOrStart == IF IsSome(endDate) THEN Val(endDate) ELSE startDate
  IN  {b \in rows :
         /\ b.categoryId = categoryId
         /\ b.id # excludeId
         /\ \/ /\ Midnight(b.startDate) <= startDate
               /\ (~IsSome(b.endDate) \/ Midnight(Val(b.endDate)) >= startDate)
            \/ /\ Midnight(b.startDate) <= endOrStart
               /\ (~IsSome(b.endDate) \/ Midnight(Val(b.endDate)) >= endOrStart)
            \/ /\ Midnight(b.startDate) >= startDate
               /\ (~IsSome(endDate) \/ Midnight(b.startDate) <= Val(endDate))}

\* the checks of createBudget up to the overlap query, in the code's order
createBudget_error(rows, categoryId, amount, period, startDate, endDate) ==
  IF categoryId <= 0 THEN "invalid_argument"
  ELSE IF amount <= 0 THEN "invalid_argument"
  ELSE IF amount > MaxAmount THEN "invalid_argument"
  ELSE IF period \notin BudgetPeriods THEN "invalid_argument"
  ELSE IF IsSome(endDate) /\ Val(endDate) <= startDate THEN "invalid_argument"
  ELSE IF ~\E c \in categories : c.id = categoryId THEN "not_found"
  ELSE IF ~\E c \in categories : c.id = categoryId /\ c.type = "expense"
       THEN "invalid_argument"
  ELSE IF budget_overlapping(rows, categoryId, 0, startDate, endDate) # {}
       THEN "already_exists"
  ELSE Null

\* INSERT INTO budgets: the DATE columns keep the day of the instant given
createBudget_row(rows, categoryId, amount, period, startDate, endDate) ==
  [id |-> Cardinality(rows) + 1,
   categoryId |-> categoryId,
   amount |-> amount,
   period |-> period,
   startDate |-> DayPart(startDate),
   endDate |-> IF IsSome(endDate) THEN Some(DayPart(Val(endDate))) ELSE None]

CreateBudget(categoryId, amount, period, startDate, endDate) ==
  LET err == createBudget_error(budgets, categoryId, amount, period, startDate, endDate)
      row == createBudget_row(budgets, categoryId, amount, period, startDate, endDate)
  IN  /\ IF err # Null
         THEN /\ last' = Result("createBudget", err, 0, 0)
              /\ UNCHANGED budgets
         ELSE /\ budgets' = budgets \cup {row}
              /\ last' = Result("createBudget", Null, row.id, 0)
      /\ UNCHANGED <<now, categories, bills, payments, ledger, nextId, reqs, calc>>

\* updateBudget: the new window and category of budget b
updateBudget_newStartDate(b, startDate) ==
  IF IsSome(startDate) THEN Val(startDate) ELSE Midnight(b.startDate)

updateBudget_newEndDate(b, endDate) ==
  IF IsSome(endDate) THEN endDate
  ELSE IF IsSome(b.endDate) THEN Some(Midnight(Val(b.endDate))) ELSE None

updateBudget_newCategoryId(b, categoryId) ==
  IF IsSome(categoryId) THEN Val(categoryId) ELSE b.categoryId

\* the checks of updateBudget, in the code's order
updateBudget_error(rows, id, categoryId, amount, period, startDate, endDate) ==
  IF id <= 0 THEN "invalid_argument"
  ELSE IF IsSome(categoryId) /\ Val(categoryId) <= 0 THEN "invalid_argument"
  ELSE IF IsSome(amount) /\ Val(amount) <= 0 THEN "invalid_argument"
  ELSE IF IsSome(amount) /\ Val(amount) > MaxAmount THEN "invalid_argument"
  ELSE IF IsSome(period) /\ Val(period) \notin BudgetPeriods THEN "invalid_argument"
  ELSE IF IsSome(categoryId) /\ ~\E c \in categories : c.id = Val(categoryId)
       THEN "not_found"
  ELSE IF IsSome(categoryId)
          /\ ~\E c \in categories : c.id = Val(categoryId) /\ c.type = "expense"
       THEN "invalid_argument"
  ELSE IF ~\E b \in rows : b.id = id THEN "not_found"
  ELSE LET b == CHOOSE r \in rows : r.id = id
           newStartDate == updateBudget_newStartDate(b, startDate)
           newEndDate == updateBudget_newEndDate(b, endDate)
           newCategoryId == updateBudget_newCategoryId(b, categoryId)
       IN  IF IsSome(newEndDate) /\ Val(newEndDate) <= newStartDate
           THEN "invalid_argument"
           ELSE IF /\ IsSome(categoryId) \/ IsSome(startDate) \/ IsSome(endDate)
                   /\ budget_overlapping(rows, newCategoryId, id,
                                         newStartDate, newEndDate) # {}
           THEN "already_exists"
           ELSE IF ~(IsSome(categoryId) \/ IsSome(amount) \/ IsSome(period)
                     \/ IsSome(startDate) \/ IsSome(endDate))
           THEN "invalid_argument"
           ELSE Null

\* UPDATE budgets SET <the fields given> WHERE id
updateBudget_row(b, categoryId, amount, period, startDate, endDate) ==
  [b EXCEPT
     !.categoryId = IF IsSome(categoryId) THEN Val(categoryId) ELSE @,
     !.amount = IF IsSome(amount) THEN Val(amount) ELSE @,
     !.period = IF IsSome(period) THEN Val(period) ELSE @,
     !.startDate = IF IsSome(startDate) THEN DayPart(Val(startDate)) ELSE @,
     !.endDate = IF IsSome(endDate) THEN Some(DayPart(Val(endDate))) ELSE @]

UpdateBudget(id, categoryId, amount, period, startDate, endDate) ==
  LET err == updateBudget_error(budgets, id, categoryId, amount, period,
                                startDate, endDate)
  IN  /\ IF err # Null
         THEN /\ last' = Result("updateBudget", err, id, 0)
              /\ UNCHANGED budgets
         ELSE /\ budgets' = {IF b.id = id
                              THEN updateBudget_row(b, categoryId, amount, period,
                                                    startDate, endDate)
                              ELSE b : b \in budgets}
              /\ last' = Result("updateBudget", Null, id, 0)
      /\ UNCHANGED <<now, categories, bills, payments, ledger, nextId, reqs, calc>>

(***************************************************************************)
(* processBudgetAlerts                                                     *)
(***************************************************************************)
WarningThreshold == 80
DangerThreshold == 90

RECURSIVE SumAmounts(_)
SumAmounts(rows) ==
  IF rows = {} THEN 0
  ELSE LET r == CHOOSE x \in rows : TRUE IN r.amount + SumAmounts(rows \ {r})

\* the budgets the query returns: active on CURRENT_DATE, category joined
budgetAlerts_active(rows, currentDate) ==
  {b \in rows : /\ b.startDate <= currentDate
                /\ (~IsSome(b.endDate) \/ Val(b.endDate) >= currentDate)
                /\ \E c \in categories : c.id = b.categoryId}

\* COALESCE(SUM(t.amount), 0) over the LEFT JOIN
budgetAlerts_spent(b) ==
  SumAmounts({t \in ledger :
                /\ t.categoryId = b.categoryId
                /\ t.date >= b.startDate
                /\ (~IsSome(b.endDate) \/ t.date <= Val(b.endDate))
                /\ \E c \in categories : c.id = b.categoryId /\ c.type = "expense"})

\* a classification that takes the thresholds as strict lower bounds
budgetAlerts_alertTypeStrict(spent, amount) ==
  IF spent * 100 > 100 * amount THEN "exceeded"
  ELSE IF spent * 100 > DangerThreshold * amount THEN "danger"
  ELSE IF spent * 100 > WarningThreshold * amount THEN "warning"
  ELSE Null

\* percentage = spent / amount * 100 against 100 and the two thresholds;
\* amount > 0, so percentage >= k exactly when spent * 100 >= k * amount
budgetAlerts_alertType(spent, amount) ==
  IF spent * 100 >= 100 * amount THEN "exceeded"
  ELSE IF spent * 100 >= DangerThreshold * amount THEN "danger"
  ELSE IF spent * 100 >= WarningThreshold * amount THEN "warning"
  ELSE Null

ProcessBudgetAlerts ==
  LET alerts == {[budgetId |-> b.id,
                  budgetAmount |-> b.amount,
                  spentAmount |-> budgetAlerts_spent(b),
                  alertType |-> budgetAlerts_alertType(budgetAlerts_spent(b), b.amount)]
                 : b \in {x \in budgetAlerts_active(budgets, DayPart(now)) :
                            budgetAlerts_alertType(budgetAlerts_spent(x), x.amount)
                              # Null}}
  IN  /\ last' = Result("processBudgetAlerts", Null, DayPart(now), alerts)
      /\ UNCHANGED <<now, categories, budgets, bills, payments, ledger, nextId,
                     reqs, calc>>

(***************************************************************************)
(* updateCategory and deleteCategory                                       *)
(***************************************************************************)
CategoryTypes == {"income", "expense"}

\* hexColorRegex.test(color): '#' followed by three or six hex digits
HexColors == {"#06b6d4", "#fff"}

\* the caller's row with this id: WHERE id = $n AND user_id = $n+1
category_owned(rows, id) == {c \in rows : c.id = id /\ c.userId = Some(UserId)}

\* categories_name_user_unique: another row of the same owner has the name
category_nameTaken(rows, id, name) ==
  \E c \in rows : c.id # id /\ c.userId = Some(UserId) /\ c.name = name

\* a "not found" raised inside the try block is caught by the handler's own
\* catch and leaves as an internal error
updateCategory_error(rows, id, name, type, color) ==
  IF id <= 0 THEN "invalid_argument"
  ELSE IF IsSome(name) /\ Val(name) = "" THEN "invalid_argument"
  ELSE IF IsSome(type) /\ Val(type) \notin CategoryTypes THEN "invalid_argument"
  ELSE IF IsSome(color) /\ Val(color) \notin HexColors THEN "invalid_argument"
  ELSE IF ~IsSome(name) /\ ~IsSome(type) /\ ~IsSome(color) THEN "invalid_argument"
  ELSE IF category_owned(rows, id) = {} THEN "internal"
  ELSE IF IsSome(name) /\ category_nameTaken(rows, id, Val(name)) THEN "already_exists"
  ELSE Null

updateCategory_row(c, name, type) ==
  [c EXCEPT !.name = IF IsSome(name) THEN Val(name) ELSE @,
            !.type = IF IsSome(type) THEN Val(type) ELSE @]

UpdateCategory(id, name, type, color) ==
  LET err == updateCategory_error(categories, id, name, type, color)
  IN  /\ IF err # Null
         THEN UNCHANGED categories
         ELSE categories' = {IF c \in category_owned(categories, id)
                             THEN updateCategory_row(c, name, type) ELSE c
                             : c \in categories}
      /\ last' = Result("updateCategory", err, id, Null)
      /\ UNCHANGED <<now, budgets, bills, payments, ledger, nextId, reqs, calc>>

\* transactions carry the caller's user_id (create_transaction.ts INSERT);
\* createBudget's INSERT sets none, so no budgets row matches user_id = userId
deleteCategory_transactionCount(id) == Cardinality({t \in ledger : t.categoryId = id})

deleteCategory_budgetCount(id) ==
  Cardinality({b \in budgets : b.categoryId = id /\ None = Some(UserId)})

\* category_id ... REFERENCES categories(id) on transactions, budgets and
\* bills: the DELETE of a referenced row raises a foreign-key violation
category_referenced(id) ==
  \/ \E t \in ledger : t.categoryId = id
  \/ \E b \in budgets : b.categoryId = id
  \/ \E b \in bills : b.categoryId = id

deleteCategory_error(rows, id) ==
  IF deleteCategory_transactionCount(id) > 0 THEN "failed_precondition"
  ELSE IF deleteCategory_budgetCount(id) > 0 THEN "failed_precondition"
  ELSE IF category_owned(rows, id) = {} THEN "not_found"
  ELSE IF category_referenced(id) THEN "internal"
  ELSE Null

DeleteCategory(id) ==
  LET err == deleteCategory_error(categories, id)
  IN  /\ IF err # Null
         THEN UNCHANGED categories
         ELSE categories' = categories \ category_owned(categories, id)
      /\ last' = Result("deleteCategory", err, id, Null)
      /\ UNCHANGED <<now, budgets, bills, payments, ledger, nextId, reqs, calc>>

(***************************************************************************)
(* updateTransaction                                                       *)
(***************************************************************************)
\* every ledger row was inserted by createTransaction with the caller's
\* user_id, so WHERE id = $n AND user_id = $n+1 selects by id; a "not found"
\* raised inside the try block, like a violated CHECK on recurring_frequency,
\* leaves through the handler's own catch as an internal error
updateTransaction_error(id, amount, description, categoryId, date, isRecurring, recurringFrequency, recurringEndDate) ==
  IF id <= 0 THEN "invalid_argument"
  ELSE IF IsSome(description) /\ Val(description) = "" THEN "invalid_argument"
  ELSE IF IsSome(amount) /\ Val(amount) <= 0 THEN "invalid_argument"
  ELSE IF IsSome(amount) /\ Val(amount) > MaxAmount THEN "invalid_argument"
  ELSE IF IsSome(categoryId) /\ Val(categoryId) <= 0 THEN "invalid_argument"
  ELSE IF IsSome(date) /\ Val(date) > setFullYearPlus(now, 1) THEN "invalid_argument"
  ELSE IF /\ IsSome(isRecurring) /\ Val(isRecurring)
          /\ IsSome(recurringFrequency) /\ Val(recurringFrequency) \notin Frequencies
       THEN "invalid_argument"
  ELSE IF IsSome(categoryId) /\ category_owned(categories, Val(categoryId)) = {}
       THEN "not_found"
  ELSE IF /\ ~IsSome(amount) /\ ~IsSome(description) /\ ~IsSome(categoryId)
          /\ ~IsSome(date) /\ ~IsSome(isRecurring) /\ ~IsSome(recurringFrequency)
          /\ ~IsSome(recurringEndDate)
       THEN "invalid_argument"
  ELSE IF ~\E t \in ledger : t.id = id THEN "internal"
  ELSE IF IsSome(recurringFrequency) /\ Val(recurringFrequency) \notin Frequencies
       THEN "internal"
  ELSE Null

updateTransaction_row(t, amount, description, categoryId, date, isRecurring, recurringFrequency, recurringEndDate) ==
  [t EXCEPT !.amount = IF IsSome(amount) THEN Val(amount) ELSE @,
            !.description = IF IsSome(description) THEN Val(description) ELSE @,
            !.categoryId = IF IsSome(categoryId) THEN Val(categoryId) ELSE @,
            !.date = IF IsSome(date) THEN DayPart(Val(date)) ELSE @,
            !.isRecurring = IF IsSome(isRecurring) THEN Val(isRecurring) ELSE @,
            !.recurringFrequency = IF IsSome(recurringFrequency) THEN recurringFrequency ELSE @,
            !.recurringEndDate = IF IsSome(recurringEndDate)
                                 THEN Some(DayPart(Val(recurringEndDate))) ELSE @]

UpdateTransaction(id, amount, description, categoryId, date, isRecurring, recurringFrequency, recurringEndDate) ==
  LET err == updateTransaction_error(id, amount, description, categoryId, date,
                                     isRecurring, recurringFrequency, recurringEndDate)
  IN  /\ IF err # Null
         THEN UNCHANGED ledger
         ELSE ledger' = {IF t.id = id
                         THEN updateTransaction_row(t, amount, description, categoryId, date,
                                                    isRecurring, recurringFrequency,
                                                    recurringEndDate)
                         ELSE t : t \in ledger}
      /\ last' = Result("updateTransaction", err, id, 0)
      /\ UNCHANGED <<now, categories, budgets, bills, payments, nextId, reqs, calc>>

(***************************************************************************)
(* deleteBill and deleteTransaction                                        *)
(***************************************************************************)
\* bill_payments.bill_id ... ON DELETE CASCADE
DeleteBill(id) ==
  IF ~\E b \in bills : b.id = id
  THEN /\ last' = Result("deleteBill", "not_found", id, 0)
       /\ UNCHANGED <<now, categories, budgets, bills, payments, ledger, nextId, reqs, calc>>
  ELSE /\ bills' = {b \in bills : b.id # id}
       /\ payments' = {p \in payments : p.billId # id}
       /\ last' = Result("deleteBill", Null, id, 0)
       /\ UNCHANGED <<now, categories, budgets, ledger, nextId, reqs, calc>>

\* bill_payments.transaction_id ... ON DELETE SET NULL
DeleteTransaction(id) ==
  IF ~\E t \in ledger : t.id = id
  THEN /\ last' = Result("deleteTransaction", "not_found", id, 0)
       /\ UNCHANGED <<now, categories, budgets, bills, payments, ledger, nextId, reqs, calc>>
  ELSE /\ ledger' = {t \in ledger : t.id # id}
       /\ payments' = {IF p.transactionId = Some(id)
                       THEN [p EXCEPT !.transactionId = None] ELSE p : p \in payments}
       /\ last' = Result("deleteTransaction", Null, id, 0)
       /\ UNCHANGED <<now, categories, budgets, bills, nextId, reqs, calc>>

(***************************************************************************)
(* updateNotificationPreferences                                           *)
(***************************************************************************)
\* a plain Error leaves the handler as an internal error
updateNotificationPreferences_error(warningThreshold, dangerThreshold) ==
  IF warningThreshold < 0 \/ warningThreshold > 100 THEN "internal"
  ELSE IF dangerThreshold < 0 \/ dangerThreshold > 100 THEN "internal"
  ELSE IF warningThreshold >= dangerThreshold THEN "internal"
  ELSE Null

\* the accepted request is returned to the caller and stored nowhere
UpdateNotificationPreferences(warningThreshold, dangerThreshold) ==
  /\ last' = Result("updateNotificationPreferences",
                    updateNotificationPreferences_error(warningThreshold, dangerThreshold),
                    0,
                    [warningThreshold |-> warningThreshold,
                     dangerThreshold |-> dangerThreshold])
  /\ UNCHANGED <<now, categories, budgets, bills, payments, ledger, nextId, reqs, calc>>

(***************************************************************************)
(* The clock                                                               *)
(***************************************************************************)
Tick ==
  /\ now' = now + 1
  /\ UNCHANGED <<categories, budgets, bills, payments, ledger, nextId, reqs, calc, last>>

(***************************************************************************)
(* Specifications                                                          *)
(***************************************************************************)
Init ==
  /\ now = StartInstant
  /\ categories = InitialCategories
  /\ budgets = {}
  /\ bills = {}
  /\ payments = {}
  /\ ledger = {}
  /\ nextId = [bill |-> 1, payment |-> 1, txn |-> 1]
  /\ reqs = {}
  /\ calc = NoCalc
  /\ last = [op |-> "none", err |-> Null, id |-> 0, out |-> 0, fault |-> "none", n |-> 1]

\* the bounds of the model: how many rows are ever created, how far the
\* clock runs
CanCreateBill == nextId.bill <= MaxBills
CanPay == nextId.payment <= MaxPayments
CanTick == now < StartInstant + MaxTicks

CreateBillCall ==
  \E amount \in AmountInputs, categoryId \in CategoryInputs,
     dueDate \in DueDateInputs, frequency \in Frequencies \cup {"invalid"},
     autoPayEnabled \in BOOLEAN, reminderDays \in ReminderInputs :
     CreateBill(amount, categoryId, dueDate, frequency, autoPayEnabled, reminderDays)

UpdateBillCall ==
  \E id \in 1..MaxBills, categoryId \in {None, Some(1)},
     dueDate \in {None, Some(Midnight(StartDay + 1))},
     frequency \in {None, Some("weekly")},
     autoPayEnabled \in {None, Some(TRUE)} :
     UpdateBill(id, None, categoryId, dueDate, frequency, autoPayEnabled, None)

MarkBillPaidCall ==
  \E id \in {b.id : b \in bills} \cup {nextId.bill},
     amount \in MarkPaidAmountInputs,
     paidDate \in {None, Some(Midnight(StartDay))},
     transactionId \in {None} \cup {Some(i) : i \in 1..nextId.txn},
     fault \in FaultKinds :
     MarkBillPaid(id, amount, paidDate, transactionId, fault)

\* a ledger row dated today
CreateTransactionCall ==
  \E amount \in AmountInputs, categoryId \in {8, 13} :
     CreateTransaction(amount, "rent", categoryId, Midnight(DayPart(now)),
                       FALSE, None, None)

Next ==
  \/ CanCreateBill /\ CreateBillCall
  \/ UpdateBillCall
  \/ CanPay /\ MarkBillPaidCall
  \/ ProcessBillReminders
  \/ CanPay /\ AutoDetectionRun
  \/ nextId.txn <= MaxTxns /\ CreateTransactionCall
  \/ CanTick /\ Tick

Spec == Init /\ [][Next]_vars

\* the clock advances, and the two cron jobs (bill-reminders at 09:00,
\* auto-detect-payments at 10:00, every day) are run again and again
FairSpec ==
  /\ Spec
  /\ WF_vars(CanTick /\ Tick)
  /\ WF_vars(ProcessBillReminders)
  /\ WF_vars(CanPay /\ AutoDetectionRun)

(***************************************************************************)
(* The daily batch jobs over several bills: the bills were created earlier *)
(* (pending, due yesterday, today or tomorrow); ledger rows arrive, bills  *)
(* are paid by hand, the sweep and the matcher run, the clock advances     *)
(***************************************************************************)
BatchBill(id, frequency, autoPayEnabled, nextDueDate) ==
  [id |-> id, amount |-> 150, categoryId |-> 13, dueDate |-> nextDueDate,
   frequency |-> frequency, status |-> "pending", autoPayEnabled |-> autoPayEnabled,
   reminderDays |-> 3, lastPaidDate |-> None, nextDueDate |-> nextDueDate]

InitBatch ==
  /\ now = StartInstant
  /\ categories = InitialCategories
  /\ budgets = {}
  /\ payments = {}
  /\ ledger = {}
  /\ nextId = [bill |-> NumBatchBills + 1, payment |-> 1, txn |-> 1]
  /\ reqs = {}
  /\ calc = NoCalc
  /\ last = [op |-> "none", err |-> Null, id |-> 0, out |-> 0, fault |-> "none", n |-> 1]
  /\ \E frequency \in [1..NumBatchBills -> {"monthly"}],
        autoPayEnabled \in [1..NumBatchBills -> BOOLEAN],
        due \in [1..NumBatchBills -> {StartDay - 1, StartDay}] :
        bills = {BatchBill(i, frequency[i], autoPayEnabled[i], due[i])
                 : i \in 1..NumBatchBills}

\* a payment by hand, of the bill's amount, dated now, linked to a ledger
\* row or to none
MarkBillPaidBatchCall ==
  \E id \in {b.id : b \in bills},
     transactionId \in {None} \cup {Some(t.id) : t \in ledger} :
     MarkBillPaid(id, None, None, transactionId, "none")

NextBatch ==
  \/ nextId.payment <= MaxBatchPayments /\ MarkBillPaidBatchCall
  \/ ProcessBillReminders
  \/ nextId.payment <= MaxBatchPayments /\ AutoDetectionRun
  \/ nextId.txn <= MaxBatchTxns /\ CreateTransactionCall
  \/ now < StartInstant + MaxBatchTicks /\ Tick

SpecBatch == InitBatch /\ [][NextBatch]_vars

(***************************************************************************)
(* The recurring-transaction projector: the user enters templates and      *)
(* plain rows, the projector runs, the clock advances from 2024-01-22      *)
(***************************************************************************)
RecStartDay == DayOf(2024, 0, 22)

InitRecurring ==
  /\ now = Instant(RecStartDay, 1)
  /\ categories = InitialCategories
  /\ budgets = {}
  /\ bills = {}
  /\ payments = {}
  /\ ledger = {}
  /\ nextId = [bill |-> 1, payment |-> 1, txn |-> 1]
  /\ reqs = {}
  /\ calc = NoCalc
  /\ last = [op |-> "none", err |-> Null, id |-> 0, out |-> 0, fault |-> "none", n |-> 1]

\* a template or a plain row, dated in the past, today or next week
CreateTransactionRecCall ==
  \E date \in {Midnight(DayOf(2024, 0, 1)), Midnight(DayOf(2024, 0, 15)),
                Midnight(RecStartDay), Midnight(RecStartDay + 7)},
     isRecurring \in BOOLEAN,
     recurringFrequency \in {None} \cup {Some(f) : f \in Frequencies},
     recurringEndDate \in {None, Some(Midnight(RecStartDay + 1))} :
     CreateTransaction(150, "rent", 13, date, isRecurring,
                       recurringFrequency, recurringEndDate)

NextRecurring ==
  \/ nextId.txn <= MaxRecTxns /\ CreateTransactionRecCall
  \/ RecurringRun
  \/ now < Instant(RecStartDay, 1) + MaxRecTicks /\ Tick

SpecRecurring == InitRecurring /\ [][NextRecurring]_vars

(***************************************************************************)
(* Overlapping markBillPaid requests.  The handler awaits the store        *)
(* between reading the bill and opening its transaction, so another        *)
(* request can run in between.  A request first reads and validates        *)
(* (MarkPaidRead), later runs BEGIN .. COMMIT (MarkPaidWrite) with the     *)
(* nextDueDate it computed from the row it read.                           *)
(***************************************************************************)
InitOverlap ==
  /\ now = StartInstant
  /\ categories = InitialCategories
  /\ budgets = {}
  /\ payments = {}
  /\ ledger = {}
  /\ nextId = [bill |-> 2, payment |-> 1, txn |-> 1]
  /\ reqs = {}
  /\ calc = NoCalc
  /\ last = [op |-> "none", err |-> Null, id |-> 0, out |-> 0, fault |-> "none", n |-> 1]
  /\ \E frequency \in Frequencies, status \in {"pending", "overdue"},
        autoPayEnabled \in BOOLEAN,
        due \in {DayOf(2024, 0, 31), StartDay - 1, DayOf(2024, 3, 15)} :
        /\ status = "overdue" => due < StartDay
        /\ status = "pending" => due >= StartDay - 1
        /\ bills = {[BatchBill(1, frequency, autoPayEnabled, due)
                      EXCEPT !.status = status]}

\* lines 25-70 of the handler: validate, read the bill, compute nextDueDate
MarkPaidRead(slot, id, amount, paidDate, transactionId) ==
  LET err == markBillPaid_error(id, amount, transactionId)
  IN  /\ ~\E r \in reqs : r.slot = slot
      /\ IF err # Null
         THEN /\ last' = Result("markBillPaid", err, id, 0)
              /\ UNCHANGED reqs
         ELSE LET bill == CHOOSE b \in bills : b.id = id
              IN  /\ reqs' = reqs \cup
                      {[slot |-> slot,
                        bill |-> bill,
                        paymentAmount |-> markBillPaid_paymentAmount(amount, bill),
                        paidDate |-> markBillPaid_paidDate(paidDate),
                        transactionId |-> transactionId,
                        nextDueDate |-> markPaid_calculateNextDueDate(
                                          Midnight(bill.nextDueDate), bill.frequency)]}
                  /\ UNCHANGED last
      /\ UNCHANGED <<now, categories, budgets, bills, payments, ledger, nextId, calc>>

\* lines 72-124 of the handler: the transaction, committed or rolled back
MarkPaidWrite(slot, fault) ==
  \E r \in reqs :
    /\ r.slot = slot
    /\ LET db == markBillPaid_tx(r.bill, r.paymentAmount, r.paidDate,
                                 r.transactionId, r.nextDueDate, fault)
       IN  /\ bills' = db.bills
           /\ payments' = db.payments
           /\ nextId' = db.nextId
    /\ reqs' = reqs \ {r}
    /\ last' = IF fault = "none"
               THEN Result("markBillPaid", Null, r.bill.id, DayPart(r.paidDate))
               ELSE ResultF("markBillPaid", "internal", r.bill.id, 0, fault)
    /\ UNCHANGED <<now, categories, budgets, ledger, calc>>

MarkPaidReadCall ==
  \E slot \in 1..MaxInFlight, id \in {1, 2}, amount \in {None, Some(0 - 5)} :
     MarkPaidRead(slot, id, amount, None, None)

MarkPaidWriteCall ==
  \E slot \in 1..MaxInFlight, fault \in FaultKinds : MarkPaidWrite(slot, fault)

NextOverlap ==
  \/ nextId.payment + Cardinality(reqs) <= MaxOverlapPayments /\ MarkPaidReadCall
  \/ MarkPaidWriteCall
  \/ now < StartInstant + MaxOverlapTicks /\ Tick

SpecOverlap == InitOverlap /\ [][NextOverlap]_vars

(***************************************************************************)
(* The schedule calculator on its own: an anchor date, a frequency and a   *)
(* reference instant are drawn, then one of the functions is applied       *)
(***************************************************************************)
CalcNextDueDate ==
  /\ calc.fn = "none"
  /\ calc' = [calc EXCEPT
                !.fn = "calculateNextDueDate",
                !.out = Some(calculateNextDueDate(calc.anchor, calc.frequency, calc.ref))]
  /\ UNCHANGED <<now, categories, budgets, bills, payments, ledger, nextId, reqs, last>>

CalcNextDueDateUpdate ==
  /\ calc.fn = "none"
  /\ calc' = [calc EXCEPT
                !.fn = "updateBill_calculateNextDueDate",
                !.out = Some(updateBill_calculateNextDueDate(
                               calc.anchor, calc.frequency, calc.ref))]
  /\ UNCHANGED <<now, categories, budgets, bills, payments, ledger, nextId, reqs, last>>

InitCalc ==
  /\ now = StartInstant
  /\ categories = InitialCategories
  /\ budgets = {}
  /\ bills = {}
  /\ payments = {}
  /\ ledger = {}
  /\ nextId = [bill |-> 1, payment |-> 1, txn |-> 1]
  /\ reqs = {}
  /\ last = [op |-> "none", err |-> Null, id |-> 0, out |-> 0, fault |-> "none", n |-> 1]
  /\ \E anchorDay \in 0..MaxAnchorDay, frequency \in Frequencies,
        refDay \in 0..MaxRefDay, h \in {0, 1} :
        calc = [fn |-> "none", anchor |-> Midnight(anchorDay), frequency |-> frequency,
                ref |-> Instant(refDay, h), out |-> None,
                occDone |-> FALSE, occ |-> None]

\* calculateNextOccurrence applied to the same anchor, frequency and reference
CalcNextOccurrence ==
  /\ ~calc.occDone
  /\ calc' = [calc EXCEPT
                !.occDone = TRUE,
                !.occ = calculateNextOccurrence(calc.anchor, calc.frequency, calc.ref)]
  /\ UNCHANGED <<now, categories, budgets, bills, payments, ledger, nextId, reqs, last>>

NextCalc == CalcNextDueDate \/ CalcNextDueDateUpdate \/ CalcNextOccurrence

SpecCalc == InitCalc /\ [][NextCalc]_vars

(***************************************************************************)
(* The matcher over bills whose due dates lie around the edges of its      *)
(* window (the sweep has not run for a week, or a bill is already overdue) *)
(* and ledger rows entered with dates around the same edges                *)
(***************************************************************************)
DetectBill(id, status, autoPayEnabled, nextDueDate) ==
  [id |-> id, amount |-> 150, categoryId |-> 13, dueDate |-> nextDueDate,
   frequency |-> "monthly", status |-> status, autoPayEnabled |-> autoPayEnabled,
   reminderDays |-> 3, lastPaidDate |-> None, nextDueDate |-> nextDueDate]

InitDetect ==
  /\ now = StartInstant
  /\ categories = InitialCategories
  /\ budgets = {}
  /\ payments = {}
  /\ ledger = {}
  /\ nextId = [bill |-> NumDetectBills + 1, payment |-> 1, txn |-> 1]
  /\ reqs = {}
  /\ calc = NoCalc
  /\ last = [op |-> "none", err |-> Null, id |-> 0, out |-> 0, fault |-> "none", n |-> 1]
  /\ \E status \in [1..NumDetectBills -> {"pending", "overdue"}],
        autoPayEnabled \in [1..NumDetectBills -> BOOLEAN],
        due \in [1..NumDetectBills -> {StartDay - 7, StartDay - 6, StartDay - 3, StartDay + 1}] :
        /\ \A i \in 1..NumDetectBills : status[i] = "overdue" => due[i] < StartDay
        /\ bills = {DetectBill(i, status[i], autoPayEnabled[i], due[i])
                    : i \in 1..NumDetectBills}

\* a ledger row entered with a date of the last days
CreateTransactionDetectCall ==
  \E amount \in {100, 150}, categoryId \in {13, 14},
     date \in {StartDay - 7, StartDay - 6, StartDay - 4, StartDay, StartDay + 1} :
     CreateTransaction(amount, "rent", categoryId, Midnight(date), FALSE, None, None)

NextDetect ==
  \/ nextId.payment <= MaxDetectPayments /\ AutoDetectionRun
  \/ nextId.txn <= MaxDetectTxns /\ CreateTransactionDetectCall
  \/ now < StartInstant + MaxDetectTicks /\ Tick

SpecDetect == InitDetect /\ [][NextDetect]_vars

(***************************************************************************)
(* Budgets: the user creates and edits budgets and enters expenses, the    *)
(* budget-alerts job runs                                                  *)
(***************************************************************************)
InitBudget ==
  /\ now = StartInstant
  /\ categories = InitialCategories
  /\ budgets = {}
  /\ bills = {}
  /\ payments = {}
  /\ ledger = {}
  /\ nextId = [bill |-> 1, payment |-> 1, txn |-> 1]
  /\ reqs = {}
  /\ calc = NoCalc
  /\ last = [op |-> "none", err |-> Null, id |-> 0, out |-> 0, fault |-> "none", n |-> 1]

BudgetStartInputs ==
  {Midnight(StartDay - 10), Instant(StartDay, 1), Midnight(StartDay + 5)}

BudgetEndInputs == {None, Some(Midnight(StartDay)), Some(Midnight(StartDay + 5))}

CreateBudgetCall ==
  \E categoryId \in CategoryInputs, amount \in {0, 1000},
     period \in {"monthly", "weekly"},
     startDate \in BudgetStartInputs, endDate \in BudgetEndInputs :
     CreateBudget(categoryId, amount, period, startDate, endDate)

UpdateBudgetCall ==
  \E id \in 1..MaxBudgets, categoryId \in {None, Some(1), Some(13)},
     amount \in {None, Some(2000)},
     startDate \in {None, Some(Midnight(StartDay - 10))},
     endDate \in {None, Some(Midnight(StartDay + 5))} :
     UpdateBudget(id, categoryId, amount, None, startDate, endDate)

\* an expense of today in Bills & Utilities
CreateTransactionBudgetCall ==
  \E amount \in {1, 599, 600, 799, 800, 899, 900, 999, 1000} :
     CreateTransaction(amount, "rent", 13, Midnight(DayPart(now)), FALSE, None, None)

NextBudget ==
  \/ Cardinality(budgets) < MaxBudgets /\ CreateBudgetCall
  \/ UpdateBudgetCall
  \/ nextId.txn <= MaxBudgetTxns /\ CreateTransactionBudgetCall
  \/ ProcessBudgetAlerts
  \/ now < StartInstant + MaxBudgetTicks /\ Tick

SpecBudget == InitBudget /\ [][NextBudget]_vars

(***************************************************************************)
(* Bill creation over anchors of the past months (the 15th, the 31st,      *)
(* 29 February; weekly, monthly and yearly bills) and of the days around   *)
(* today (bills of every frequency)                                        *)
(***************************************************************************)
AnchorInputs ==
  {DayOf(2024, 0, 15), DayOf(2024, 0, 31), DayOf(2024, 1, 29),
   StartDay - 1, StartDay, StartDay + 1, StartDay + 2}

CreateBillAnchorCall ==
  \E day \in AnchorInputs, frequency \in Frequencies :
     /\ frequency = "daily" => day >= StartDay - 1
     /\ CreateBill(150, 13, Midnight(day), frequency, FALSE, None)

NextCreate ==
  \/ nextId.bill <= MaxCreateBills /\ CreateBillAnchorCall
  \/ now < StartInstant + MaxCreateTicks /\ Tick

SpecCreate == Init /\ [][NextCreate]_vars

(***************************************************************************)
(* createBudget requests that overlap in time: the handler awaits the      *)
(* store between its overlap query and its INSERT, and another request's   *)
(* statements may run in between                                           *)
(***************************************************************************)
\* lines 18-68 of createBudget: validation, category lookup, overlap query
CreateBudgetCheck(slot, categoryId, amount, period, startDate, endDate) ==
  LET err == createBudget_error(budgets, categoryId, amount, period, startDate, endDate)
  IN  /\ ~\E r \in reqs : r.slot = slot
      /\ IF err # Null
         THEN /\ last' = Result("createBudget", err, 0, 0)
              /\ UNCHANGED reqs
         ELSE /\ reqs' = reqs \cup {[slot |-> slot, categoryId |-> categoryId,
                                     amount |-> amount, period |-> period,
                                     startDate |-> startDate, endDate |-> endDate]}
              /\ UNCHANGED last
      /\ UNCHANGED <<now, categories, budgets, bills, payments, ledger, nextId, calc>>

\* lines 70-97 of createBudget: the INSERT and the response
CreateBudgetInsert(slot) ==
  \E r \in reqs :
    /\ r.slot = slot
    /\ LET row == createBudget_row(budgets, r.categoryId, r.amount, r.period,
                                   r.startDate, r.endDate)
       IN  /\ budgets' = budgets \cup {row}
           /\ last' = Result("createBudget", Null, row.id, 0)
    /\ reqs' = reqs \ {r}
    /\ UNCHANGED <<now, categories, bills, payments, ledger, nextId, calc>>

CreateBudgetCheckCall ==
  \E slot \in 1..MaxBudgetInFlight,
     startDate \in BudgetStartInputs, endDate \in BudgetEndInputs :
     CreateBudgetCheck(slot, 13, 1000, "monthly", startDate, endDate)

CreateBudgetInsertCall == \E slot \in 1..MaxBudgetInFlight : CreateBudgetInsert(slot)

NextBudgetOverlap ==
  \/ Cardinality(budgets) + Cardinality(reqs) < MaxOverlapBudgets /\ CreateBudgetCheckCall
  \/ CreateBudgetInsertCall
  \/ UpdateBudgetCall

SpecBudgetOverlap == InitBudget /\ [][NextBudgetOverlap]_vars

(***************************************************************************)
(* Bills and the categories they reference                                 *)
(***************************************************************************)
MaxCategoryBills == 1

CreateBillCategoryCall ==
  \E categoryId \in {8, 13, 14, 99}, autoPayEnabled \in BOOLEAN :
     CreateBill(150, categoryId, Midnight(StartDay + 1), "monthly", autoPayEnabled, None)

UpdateBillCategoryCall ==
  \E id \in 1..MaxCategoryBills, categoryId \in {None, Some(8), Some(13), Some(14)},
     autoPayEnabled \in {None, Some(TRUE)} :
     UpdateBill(id, None, categoryId, None, None, autoPayEnabled, None)

UpdateCategoryCall ==
  \E id \in {0, 8, 13, 14},
     name \in {None, Some(""), Some("Rent"), Some("Pay")},
     type \in {None, Some("income"), Some("expense"), Some("transfer")},
     color \in {None, Some("#fff"), Some("blue")} :
     UpdateCategory(id, name, type, color)

DeleteCategoryCall == \E id \in {8, 13, 14} : DeleteCategory(id)

MaxCategoryTxns == 1

CreateTransactionCategoryCall ==
  \E categoryId \in {8, 14} :
     CreateTransaction(150, "pay", categoryId, Midnight(DayPart(now)), FALSE, None, None)

NextCategory ==
  \/ nextId.txn <= MaxCategoryTxns /\ CreateTransactionCategoryCall
  \/ nextId.bill <= MaxCategoryBills /\ CreateBillCategoryCall
  \/ UpdateBillCategoryCall
  \/ UpdateCategoryCall
  \/ DeleteCategoryCall

SpecCategory == Init /\ [][NextCategory]_vars

(***************************************************************************)
(* Recurring templates under createTransaction and updateTransaction       *)
(***************************************************************************)
MaxTemplateTxns == 2

TemplateDateInputs == {Midnight(StartDay - 1), Midnight(StartDay), Instant(StartDay, 1)}

TemplateEndInputs == {None, Some(Midnight(StartDay - 1)), Some(Midnight(StartDay)), Some(Midnight(StartDay + 1))}

CreateTransactionTemplateCall ==
  \E date \in TemplateDateInputs, isRecurring \in BOOLEAN,
     recurringFrequency \in {None, Some("monthly")},
     recurringEndDate \in TemplateEndInputs :
     CreateTransaction(150, "rent", 13, date, isRecurring, recurringFrequency, recurringEndDate)

UpdateTransactionTemplateCall ==
  \E id \in 1..MaxTemplateTxns, amount \in {None, Some(0)},
     date \in {None} \cup {Some(d) : d \in TemplateDateInputs},
     isRecurring \in {None, Some(TRUE)},
     recurringFrequency \in {None, Some("hourly")},
     recurringEndDate \in TemplateEndInputs :
     UpdateTransaction(id, amount, None, None, date, isRecurring, recurringFrequency, recurringEndDate)

NextTemplate ==
  \/ nextId.txn <= MaxTemplateTxns /\ CreateTransactionTemplateCall
  \/ UpdateTransactionTemplateCall

SpecTemplate == Init /\ [][NextTemplate]_vars

(***************************************************************************)
(* Payment rows under every operation that can reach them                  *)
(***************************************************************************)
DeleteBillCall == \E id \in 1..MaxBills + 1 : DeleteBill(id)

DeleteTransactionCall == \E id \in 1..MaxTxns + 1 : DeleteTransaction(id)

NextPayments ==
  \/ CanCreateBill /\ CreateBillCall
  \/ UpdateBillCall
  \/ CanPay /\ MarkBillPaidCall
  \/ ProcessBillReminders
  \/ CanPay /\ AutoDetectionRun
  \/ nextId.txn <= MaxTxns /\ CreateTransactionCall
  \/ CanTick /\ Tick
  \/ DeleteBillCall
  \/ DeleteTransactionCall

SpecPayments == Init /\ [][NextPayments]_vars

(***************************************************************************)
(* Budget alerts and the notification preferences                          *)
(***************************************************************************)
MaxPreferenceTxns == 2

UpdateNotificationPreferencesCall ==
  \E warningThreshold \in {50, 80, 95, 101}, dangerThreshold \in {60, 90} :
     UpdateNotificationPreferences(warningThreshold, dangerThreshold)

CreateTransactionPreferencesCall ==
  \E amount \in {550, 850, 950} :
     CreateTransaction(amount, "rent", 13, Midnight(DayPart(now)), FALSE, None, None)

NextPreferences ==
  \/ Cardinality(budgets) < MaxBudgets /\ CreateBudgetCall
  \/ nextId.txn <= MaxPreferenceTxns /\ CreateTransactionPreferencesCall
  \/ UpdateNotificationPreferencesCall
  \/ ProcessBudgetAlerts

SpecPreferences == InitBudget /\ [][NextPreferences]_vars

(***************************************************************************)
(* The daily schedule: bill-reminders at 09:00, auto-detect-payments at    *)
(* 10:00                                                                   *)
(***************************************************************************)
MaxScheduleDays == 3

\* the day's job has returned: last carries the job and its reference day
RanToday(op) == last.op = op /\ last.id = DayPart(now)

\* an auto-pay bill and a ledger row of its category and amount entered
\* during the last week
InitSchedule ==
  /\ now = StartInstant
  /\ categories = InitialCategories
  /\ budgets = {}
  /\ payments = {}
  /\ nextId = [bill |-> 2, payment |-> 1, txn |-> 2]
  /\ reqs = {}
  /\ calc = NoCalc
  /\ last = [op |-> "none", err |-> Null, id |-> 0, out |-> 0, fault |-> "none", n |-> 1]
  /\ \E due \in StartDay - 8..StartDay + 2, frequency \in Frequencies,
        autoPayEnabled \in BOOLEAN, amount \in {100, 150},
        date \in {StartDay - 6, StartDay - 1, StartDay} :
        /\ bills = {[DetectBill(1, "pending", autoPayEnabled, due)
                       EXCEPT !.frequency = frequency]}
        /\ ledger = {[id |-> 1, amount |-> amount, description |-> "rent",
                      categoryId |-> 13, date |-> date, isRecurring |-> FALSE,
                      recurringFrequency |-> None, recurringEndDate |-> None]}

\* 09:00
CronBillReminders ==
  /\ ~RanToday("processBillReminders") /\ ~RanToday("processAutoDetection")
  /\ ProcessBillReminders

\* 10:00
CronAutoDetection ==
  /\ RanToday("processBillReminders")
  /\ \E order \in Orderings(autoDetect_bills(bills, setDatePlus(now, 0 - 7), now)),
        pref \in Rankings({t.id : t \in ledger}) :
        ProcessAutoDetection(order, pref, [b \in {x.id : x \in bills} |-> "none"])

\* the following day
CronNextDay ==
  /\ RanToday("processAutoDetection")
  /\ now < StartInstant + 2 * MaxScheduleDays
  /\ now' = now + 2
  /\ UNCHANGED <<categories, budgets, bills, payments, ledger, nextId, reqs, calc, last>>

NextSchedule == CronBillReminders \/ CronAutoDetection \/ CronNextDay

SpecSchedule ==
  /\ InitSchedule
  /\ [][NextSchedule]_vars
  /\ WF_vars(CronBillReminders)
  /\ WF_vars(CronAutoDetection)
  /\ WF_vars(CronNextDay)

(***************************************************************************)
(* Properties                                                              *)
(***************************************************************************)
\* one period after a calendar day: the next day, the same weekday of the
\* next week, the same day of the next month, the same date of the next
\* year, a day the target month lacks rolling over into the month after
PlusOnePeriod(day, frequency) ==
  CASE frequency = "daily" -> day + 1
    [] frequency = "weekly" -> day + 7
    [] frequency = "monthly" -> DayOf(getFullYear(day), getMonth(day) + 1, getDate(day))
    [] frequency = "yearly" -> DayOf(getFullYear(day) + 1, getMonth(day), getDate(day))

BillById(rows, id) == CHOOSE b \in rows : b.id = id

\* this step is a call of op that has just returned
Returned(op) == last'.op = op /\ now' = now

\* C1: a successful markPaid on a pending or overdue bill inserts exactly one
\* payment with isAutoDetected = false and sets the bill to paid, with
\* lastPaidDate = paidDate and nextDueDate = the previous nextDueDate plus
\* one period of the bill's frequency, however long ago that date was.
C1_MarkPaidAdvancesOnePeriod ==
  [][(Returned("markBillPaid") /\ last'.err = Null
      /\ BillById(bills, last'.id).status \in {"pending", "overdue"})
     => LET before == BillById(bills, last'.id)
            after == BillById(bills', last'.id)
            new == payments' \ payments
        IN  /\ payments \subseteq payments'
            /\ Cardinality(new) = 1
            /\ \A p \in new : /\ p.billId = before.id
                               /\ p.isAutoDetected = FALSE
                               /\ p.paidDate = last'.out
            /\ after.status = "paid"
            /\ after.lastPaidDate = Some(last'.out)
            /\ after.nextDueDate = PlusOnePeriod(before.nextDueDate, before.frequency)
            /\ \A b \in bills : b.id # before.id => b \in bills']_vars

\* the spec's scenario: monthly, next due 2024-04-15, paid, now due 2024-05-15
C1_Witness ==
  /\ last.op = "markBillPaid" /\ last.err = Null
  /\ \E b \in bills : /\ b.id = last.id
                       /\ b.frequency = "monthly"
                       /\ b.status = "paid"
                       /\ b.nextDueDate = DayOf(2024, 4, 15)
                       /\ \E p \in payments : p.billId = b.id /\ ~p.isAutoDetected

\* C2: when the payment insert succeeds and the bill update then fails,
\* markPaid leaves no payment row behind and the bill as it was, and the
\* caller gets the error (one attempt, no second insert).
C2_MarkPaidAllOrNothing ==
  [][(Returned("markBillPaid") /\ last'.fault = "update")
     => /\ payments' = payments
        /\ bills' = bills
        /\ last'.err = "internal"]_vars

C2_Witness ==
  /\ last.op = "markBillPaid" /\ last.fault = "update" /\ last.err = "internal"
  /\ \E b \in bills : /\ b.id = last.id
                       /\ b.status = "pending"
                       /\ ~\E p \in payments : p.billId = b.id

\* C3: catch-up next due date, in createBill and in updateBill: the result
\* is the anchor when the anchor is after the reference instant, and is
\* strictly after the reference instant otherwise (a reference equal to an
\* occurrence moves on to the following occurrence).
C3_CatchUpStrictlyAfter ==
  calc.fn \in {"calculateNextDueDate", "updateBill_calculateNextDueDate"}
  => /\ calc.anchor > calc.ref => Val(calc.out) = calc.anchor
     /\ calc.anchor <= calc.ref => Val(calc.out) > calc.ref

\* the reference is exactly the occurrence of 2024-01-31, monthly
C3_Witness ==
  /\ calc.fn = "calculateNextDueDate"
  /\ calc.frequency = "monthly"
  /\ calc.anchor = Midnight(DayOf(2024, 0, 31))
  /\ calc.ref = calc.anchor
  /\ Val(calc.out) > calc.ref

SameOccurrence(r, q) ==
  /\ r.description = q.description /\ r.categoryId = q.categoryId
  /\ r.amount = q.amount /\ r.date = q.date

\* C4: a projector run never materializes two rows for the same template
\* values and date, nor a row that is already there, and a run that follows
\* a run for the same reference day on the same templates adds no row and
\* reports created = 0.
C4_ProjectorIdempotent ==
  [][Returned("processRecurring")
     => LET new == ledger' \ ledger
        IN  /\ ledger \subseteq ledger'
            /\ \A r \in new : ~r.isRecurring
            /\ \A r, q \in new : SameOccurrence(r, q) => r = q
            /\ \A r \in new : ~\E q \in ledger : ~q.isRecurring /\ SameOccurrence(r, q)
            /\ (last.op = "processRecurring" /\ last'.id = last.id)
                 => (new = {} /\ last'.out[2] = 0)]_vars

\* two runs in a row on 2024-01-22 over the weekly template of 2024-01-01
C4_Witness ==
  /\ last.op = "processRecurring" /\ last.n = 2 /\ last.id = RecStartDay
  /\ last.out[1] >= 1 /\ last.out[2] = 0
  /\ \E t \in ledger : /\ t.isRecurring
                        /\ t.recurringFrequency = Some("weekly")
                        /\ t.date = DayOf(2024, 0, 1)

\* C5: a projector run on an active template that began at least one period
\* ago, with no non-recurring row of the template's description, category
\* and amount in the ledger, inserts a non-recurring row of the template's
\* values dated after the template's date and on or before today (template
\* 2024-01-01, weekly, today 2024-01-22: the row of 2024-01-15).
C5_ProjectorMaterializesDue ==
  [][Returned("processRecurring")
     => \A t \in processRecurring_templates(ledger, setHoursZero(now)) :
          (/\ PlusOnePeriod(t.date, Val(t.recurringFrequency)) <= DayPart(now)
           /\ ~\E q \in ledger :
                 /\ ~q.isRecurring /\ q.description = t.description
                 /\ q.categoryId = t.categoryId /\ q.amount = t.amount)
          => \E r \in ledger' \ ledger :
                /\ ~r.isRecurring /\ r.description = t.description
                /\ r.categoryId = t.categoryId /\ r.amount = t.amount
                /\ t.date < r.date /\ r.date <= DayPart(now)]_vars

\* C6: the overdue sweep is idempotent: a second run right after a run with
\* the same reference date changes no bill.
C6_SweepIdempotent ==
  [][(last.op = "processBillReminders" /\ Returned("processBillReminders")
      /\ last'.id = last.id)
     => bills' = bills]_vars

\* two runs in a row, the first of which marked both bills overdue
C6_Witness ==
  /\ last.op = "processBillReminders" /\ last.n = 2
  /\ Cardinality({b \in bills : b.status = "overdue"}) >= 2

\* C7: a run of the matcher links only transactions no payment links yet,
\* links no transaction twice and creates at most one payment per bill; so
\* no two auto-detected payments ever share a transaction.
C7_MatcherOneToOne ==
  [][Returned("processAutoDetection")
     => LET new == payments' \ payments
        IN  /\ \A p \in new :
                 /\ p.isAutoDetected
                 /\ IsSome(p.transactionId)
                 /\ ~\E q \in payments : q.transactionId = p.transactionId
            /\ \A p, q \in new :
                 (p.transactionId = q.transactionId \/ p.billId = q.billId) => p = q
            /\ \A p, q \in payments' :
                 (p.isAutoDetected /\ q.isAutoDetected
                  /\ p.transactionId = q.transactionId) => p = q]_vars

\* two eligible auto-pay bills of the same category and amount compete for
\* the only ledger row: the run matched one and left the other pending
C7_Witness ==
  /\ last.op = "processAutoDetection" /\ last.out = 1
  /\ Cardinality(ledger) = 1
  /\ \E b1, b2 \in bills :
        /\ b1.status = "paid" /\ b2.status = "pending" /\ b2.autoPayEnabled
        /\ Midnight(b2.nextDueDate) <= now
        /\ Midnight(b2.nextDueDate) >= setDatePlus(now, 0 - 7)
        /\ \E p \in payments : p.billId = b1.id /\ p.isAutoDetected
        /\ ~\E p \in payments : p.billId = b2.id

\* C9: a bill that is paid returns to pending for its following cycle.
C9_PaidReturnsToPending ==
  \A id \in 1..MaxBills :
    (\E b \in bills : b.id = id /\ b.status = "paid")
      ~> (\E b \in bills : b.id = id /\ b.status = "pending")

RECURSIVE PlusPeriods(_, _, _)
PlusPeriods(day, frequency, n) ==
  IF n = 0 THEN day ELSE PlusPeriods(PlusOnePeriod(day, frequency), frequency, n - 1)

PaymentsOf(id) == {p \in payments : p.billId = id}

\* C10: every committed manual payment advances nextDueDate by one period,
\* whether the markPaid calls follow one another or overlap: a bill that
\* began at nextDueDate d and has n payments is due at d plus n periods
\* (in this specification a bill's dueDate is the nextDueDate it began with).
C10_PaymentsAdvanceDueDate ==
  \A b \in bills :
    b.nextDueDate = PlusPeriods(b.dueDate, b.frequency, Cardinality(PaymentsOf(b.id)))

\* C8: a bill the auto-matcher matches is advanced as markPaid would advance
\* it: paid, lastPaidDate = the matched transaction's date, nextDueDate =
\* the previous nextDueDate plus one period of the bill's own frequency.
C8_AutoMatchAdvancesOwnFrequency ==
  [][Returned("processAutoDetection")
     => \A p \in payments' \ payments :
          LET before == BillById(bills, p.billId)
              after == BillById(bills', p.billId)
          IN  /\ after.status = "paid"
              /\ after.lastPaidDate = Some(p.paidDate)
              /\ \E t \in ledger : p.transactionId = Some(t.id) /\ t.date = p.paidDate
              /\ after.nextDueDate = PlusOnePeriod(before.nextDueDate, before.frequency)]_vars

\* the instants from seven days before now up to now; a DATE column counts
\* as the midnight that begins its day
InTrailingWindow(day) == now - 14 <= 2 * day /\ 2 * day <= now

\* C11: every payment a matcher run creates is for a bill that was pending,
\* auto-pay-enabled and due within the trailing seven days ending now, and
\* links a transaction of the bill's category and amount, dated within the
\* same window, linked by no payment, and as close to the bill's
\* nextDueDate as any such transaction (the payments of one run taken in
\* the order the run made them).
C11_AutoDetectEligibility ==
  [][Returned("processAutoDetection")
     => LET new == payments' \ payments
        IN  \E seq \in Orderings(new) :
              \A i \in 1..Cardinality(new) :
                LET p == seq[i]
                    linked == {q.transactionId : q \in payments}
                                \cup {seq[j].transactionId : j \in 1..(i - 1)}
                IN  /\ p.isAutoDetected
                    /\ \E b \in bills :
                         /\ b.id = p.billId
                         /\ b.status = "pending"
                         /\ b.autoPayEnabled
                         /\ InTrailingWindow(b.nextDueDate)
                         /\ LET cands == {u \in ledger :
                                            /\ u.categoryId = b.categoryId
                                            /\ u.amount = b.amount
                                            /\ InTrailingWindow(u.date)
                                            /\ Some(u.id) \notin linked}
                            IN  \E t \in cands :
                                  /\ p.transactionId = Some(t.id)
                                  /\ \A u \in cands :
                                       Abs(t.date - b.nextDueDate)
                                         <= Abs(u.date - b.nextDueDate)]_vars

\* a bill due 2024-04-07 was matched to the row of 2024-04-06 although the
\* ledger also holds a row of the same category and amount dated 2024-04-10
C11_Witness ==
  /\ last.op = "processAutoDetection" /\ last.out = 1
  /\ \E p \in payments, t, u \in ledger :
        /\ p.isAutoDetected /\ p.transactionId = Some(t.id)
        /\ t.date = StartDay - 4 /\ u.date = StartDay
        /\ u.categoryId = t.categoryId /\ u.amount = t.amount
        /\ ~\E q \in payments : q.transactionId = Some(u.id)
        /\ \E b \in bills : b.id = p.billId /\ b.dueDate = StartDay - 3

\* the rows the matching query of a bill ranges over in a given store
UnlinkedCandidates(b, linkedBy) ==
  {u \in ledger : /\ u.categoryId = b.categoryId
                  /\ u.amount = b.amount
                  /\ InTrailingWindow(u.date)
                  /\ ~\E q \in linkedBy : q.transactionId = Some(u.id)}

\* C12: in a matcher run, a bill whose payment insert or bill update fails
\* ends the run with no payment and unchanged; the run goes on to the other
\* bills (each selected bill that did not fail is matched unless no
\* candidate is left for it), the other bills' payments and updates stay,
\* and matched is the number of payments the run committed.
C12_AutoDetectPerItemFailure ==
  [][Returned("processAutoDetection")
     => LET new == payments' \ payments
            failed == last'.fault
        IN  /\ payments \subseteq payments'
            /\ \A id \in failed :
                 /\ ~\E p \in new : p.billId = id
                 /\ BillById(bills', id) = BillById(bills, id)
            /\ \A p \in new : BillById(bills', p.billId).status = "paid"
            /\ \A b \in bills :
                 (/\ b.status = "pending" /\ b.autoPayEnabled
                  /\ InTrailingWindow(b.nextDueDate)
                  /\ b.id \notin failed)
                 => \/ \E p \in new : p.billId = b.id
                    \/ UnlinkedCandidates(b, payments') = {}
            /\ last'.out = Cardinality(new)]_vars

\* one bill's transaction failed and was rolled back, the other bill of the
\* same run was matched and committed
C12_Witness ==
  /\ last.op = "processAutoDetection" /\ last.out = 1
  /\ \E b1, b2 \in bills :
        /\ b1.id \in last.fault /\ b1.status = "pending"
        /\ ~\E p \in payments : p.billId = b1.id
        /\ b2.status = "paid"
        /\ \E p \in payments : p.billId = b2.id /\ p.isAutoDetected

\* C14: with the default thresholds a budget whose spending is below 80% of
\* its amount raises no alert (599 and 600 of 1000 among them), from 80% up
\* to below 90% it raises warning, from 90% up to below 100% danger, at
\* 100% or more exceeded; the list holds only such rows, one per budget.
C14_BudgetAlertBands ==
  [][Returned("processBudgetAlerts")
     => LET alerts == last'.out
        IN  /\ \A a \in alerts :
                 LET pct100 == a.spentAmount * 100
                 IN  /\ a.alertType \in {"warning", "danger", "exceeded"}
                     /\ a.alertType = "warning"
                          <=> (80 * a.budgetAmount <= pct100 /\ pct100 < 90 * a.budgetAmount)
                     /\ a.alertType = "danger"
                          <=> (90 * a.budgetAmount <= pct100 /\ pct100 < 100 * a.budgetAmount)
                     /\ a.alertType = "exceeded" <=> 100 * a.budgetAmount <= pct100
            /\ \A b \in budgets :
                 (b.startDate <= DayPart(now)
                  /\ (IsSome(b.endDate) => Val(b.endDate) >= DayPart(now)))
                 => LET spent == SumAmounts({t \in ledger :
                                   /\ t.categoryId = b.categoryId
                                   /\ t.date >= b.startDate
                                   /\ (IsSome(b.endDate) => t.date <= Val(b.endDate))})
                    IN  /\ spent * 100 < 80 * b.amount
                             => ~\E a \in alerts : a.budgetId = b.id
                        /\ spent * 100 >= 80 * b.amount
                             => \E a \in alerts :
                                   /\ a.budgetId = b.id /\ a.spentAmount = spent
                                   /\ a.budgetAmount = b.amount
                                   /\ \A c \in alerts : c.budgetId = b.id => c = a]_vars

\* a budget of 1000 with exactly 800 spent raised a warning
C14_Witness ==
  /\ last.op = "processBudgetAlerts"
  /\ \E a \in last.out :
        a.budgetAmount = 1000 /\ a.spentAmount = 800 /\ a.alertType = "warning"

\* C15: a reminder run with reference day ref returns one reminder for each
\* bill that is pending or overdue and due on or before ref + reminderDays
\* (a bill due before ref included), and for no other bill, never for a
\* paid one; daysUntilDue is the number of days from ref to nextDueDate and
\* isOverdue holds exactly when that number is negative.
C15_RemindersExact ==
  [][Returned("processBillReminders")
     => LET ref == DayPart(now)
            due == {b \in bills' :
                      /\ b.status \in {"pending", "overdue"}
                      /\ \/ b.nextDueDate <= ref + b.reminderDays
                         \/ b.nextDueDate < ref}
        IN  /\ {r.billId : r \in last'.out} = {b.id : b \in due}
            /\ Cardinality(last'.out) = Cardinality(due)
            /\ \A r \in last'.out :
                 LET b == BillById(bills', r.billId)
                 IN  /\ b.status # "paid"
                     /\ r.dueDate = b.nextDueDate
                     /\ r.daysUntilDue = b.nextDueDate - ref
                     /\ r.isOverdue <=> r.daysUntilDue < 0]_vars

\* a bill due exactly reminderDays ahead is in the list, not overdue
C15_Witness ==
  /\ last.op = "processBillReminders"
  /\ \E r \in last.out, b \in bills :
        /\ r.billId = b.id /\ b.status = "pending"
        /\ b.reminderDays = 3 /\ r.daysUntilDue = 3 /\ ~r.isOverdue
        /\ b.nextDueDate = last.id + 3

OccurrenceOf(startDay, frequency, k) ==
  CASE frequency = "daily" -> startDay + k
    [] frequency = "weekly" -> startDay + 7 * k
    [] frequency = "monthly" ->
         DayOf(getFullYear(startDay), getMonth(startDay) + k, getDate(startDay))
    [] frequency = "yearly" ->
         DayOf(getFullYear(startDay) + k, getMonth(startDay), getDate(startDay))

C18_CatchUpEqualsProjectForward ==
  (/\ calc.fn = "calculateNextDueDate" /\ calc.occDone
   /\ calc.frequency \in {"monthly", "yearly"}
   /\ calc.anchor <= calc.ref)
  => calc.occ = calc.out

\* the windows [startDate, endDate) of two budgets share a day; a missing
\* endDate leaves the window open-ended
WindowsOverlap(a, b) ==
  /\ (IsSome(b.endDate) => a.startDate < Val(b.endDate))
  /\ (IsSome(a.endDate) => b.startDate < Val(a.endDate))

\* C19: whatever createBudget and updateBudget calls were made, one after
\* another or overlapping in time, no two budgets of the same category have
\* overlapping windows.
C19_NoOverlappingBudgets ==
  \A a, b \in budgets :
    (a.id # b.id /\ a.categoryId = b.categoryId) => ~WindowsOverlap(a, b)

\* C20: in every reachable state every bill references an existing category
\* whose type is expense, whatever createBill, updateBill, updateCategory and
\* deleteCategory calls came before
C20_BillsReferenceExpenseCategory ==
  \A b \in bills : \E c \in categories : c.id = b.categoryId /\ c.type = "expense"

\* C21: in every state reachable by createTransaction and updateTransaction
\* a recurring template that has a recurringEndDate has it strictly after
\* the template's own date
C21_TemplateEndAfterDate ==
  \A t \in ledger :
     (t.isRecurring /\ IsSome(t.recurringEndDate)) => Val(t.recurringEndDate) > t.date

\* C22: BillPayment rows are immutable: a payment appears only through
\* markBillPaid or the auto-matcher, no step changes a field of a payment,
\* and a payment disappears only together with its bill and all of that
\* bill's payments
C22_PaymentsImmutable ==
  [][/\ \A p \in payments :
           \/ p \in payments'
           \/ /\ ~\E q \in payments' : q.id = p.id \/ q.billId = p.billId
              /\ ~\E b \in bills' : b.id = p.billId
     /\ (\E q \in payments' : ~\E p \in payments : p.id = q.id)
           => last'.op \in {"markBillPaid", "processAutoDetection"}]_vars

\* C23: markPaid rejects invalid input without changing state: a supplied
\* amount that is not greater than 0 (0 included) or above the maximum fails
\* with invalid-argument, an unknown bill id and a transactionId that names
\* no ledger row fail with not-found, and in each case no payment is
\* created and the bill is unchanged
C23_MarkPaidRejectsInvalid ==
  [][Returned("markBillPaid") =>
     \A id \in {b.id : b \in bills} \cup {nextId.bill},
        amount \in MarkPaidAmountInputs,
        paidDate \in {None, Some(Midnight(StartDay))},
        transactionId \in {None} \cup {Some(i) : i \in 1..nextId.txn},
        fault \in FaultKinds :
        LET badAmount == IsSome(amount) /\ (Val(amount) <= 0 \/ Val(amount) > MaxAmount)
            noBill == ~\E b \in bills : b.id = id
            noTransaction == /\ IsSome(transactionId)
                             /\ ~\E t \in ledger : t.id = Val(transactionId)
        IN  (MarkBillPaid(id, amount, paidDate, transactionId, fault)
             /\ (badAmount \/ noBill \/ noTransaction))
            => /\ last'.err \in {"invalid_argument", "not_found"}
               /\ (badAmount /\ ~noBill /\ ~noTransaction) => last'.err = "invalid_argument"
               /\ (~badAmount /\ (noBill \/ noTransaction)) => last'.err = "not_found"
               /\ payments' = payments
               /\ bills' = bills]_vars

\* C24: the alert thresholds are configuration: an evaluation that follows
\* an accepted change of the notification preferences to thresholds (w, d)
\* classifies every active budget with w and d, and the evaluation itself
\* changes nothing in the store
C24_ThresholdsAreConfiguration ==
  [][Returned("processBudgetAlerts")
     => /\ UNCHANGED <<categories, budgets, bills, payments, ledger, nextId>>
        /\ (last.op = "updateNotificationPreferences" /\ last.err = Null)
           => \A b \in budgetAlerts_active(budgets, DayPart(now)) :
                 LET spent == budgetAlerts_spent(b)
                     w == last.out.warningThreshold
                     d == last.out.dangerThreshold
                     expected == IF spent * 100 >= 100 * b.amount THEN "exceeded"
                                 ELSE IF spent * 100 >= d * b.amount THEN "danger"
                                 ELSE IF spent * 100 >= w * b.amount THEN "warning"
                                 ELSE Null
                 IN  IF expected = Null
                     THEN ~\E a \in last'.out : a.budgetId = b.id
                     ELSE \E a \in last'.out : a.budgetId = b.id /\ a.alertType = expected]_vars

\* a day inside the half-open window [startDate, endDate) of a budget, a
\* missing endDate leaving the window open-ended
InHalfOpenWindow(b, day) ==
  b.startDate <= day /\ (IsSome(b.endDate) => day < Val(b.endDate))

\* C25: an evaluation covers exactly the budgets whose half-open window
\* [startDate, endDate) contains today, and a budget's spent is the sum of
\* the amounts of the transactions of its category dated inside that window
C25_HalfOpenBudgetWindow ==
  [][Returned("processBudgetAlerts")
     => LET today == DayPart(now)
            spentIn(b) == SumAmounts({t \in ledger : /\ t.categoryId = b.categoryId
                                                     /\ InHalfOpenWindow(b, t.date)})
        IN  /\ \A a \in last'.out :
                 \E b \in budgets : /\ b.id = a.budgetId
                                    /\ InHalfOpenWindow(b, today)
                                    /\ a.spentAmount = spentIn(b)
            /\ \A b \in budgets :
                 (InHalfOpenWindow(b, today) /\ spentIn(b) * 100 >= WarningThreshold * b.amount)
                 => \E a \in last'.out : a.budgetId = b.id]_vars

C27_OverdueMeansPastDue ==
  \A b \in bills : b.status = "overdue" => b.nextDueDate < DayPart(now)

\* C28: in every reachable state each ledger transaction is referenced by at
\* most one BillPayment, manual payments that name a transactionId and
\* auto-detected payments alike
C28_TransactionLinkedOnce ==
  \A p, q \in payments :
     (IsSome(p.transactionId) /\ p.transactionId = q.transactionId) => p = q

C30_RemindersFrame ==
  [][Returned("processBillReminders")
     => /\ payments' = payments
        /\ ledger' = ledger
        /\ categories' = categories /\ budgets' = budgets /\ nextId' = nextId
        /\ {b.id : b \in bills'} = {b.id : b \in bills}
        /\ Cardinality(bills') = Cardinality(bills)
        /\ \A b \in bills :
             BillById(bills', b.id)
               = IF b.status = "pending" /\ b.nextDueDate < DayPart(now)
                 THEN [b EXCEPT !.status = "overdue"] ELSE b]_vars

\* after a run: a bill swept to overdue with its due date still in the past,
\* next to a paid bill and its payment
C30_Witness ==
  /\ last.op = "processBillReminders"
  /\ \E b \in bills : /\ b.status = "overdue" /\ b.nextDueDate < DayPart(now)
                       /\ ~IsSome(b.lastPaidDate)
  /\ \E b \in bills : b.status = "paid" /\ \E p \in payments : p.billId = b.id
====
